---- MODULE Spec2Model ----
(***************************************************************************)
(* Retrieval-and-fallback engine of the pregnancy nutrition chatbot:       *)
(* the sliding-window rate limiter, the TTL response caches and the        *)
(* request handler of ComprehensiveChatbot.                                *)
(*                                                                         *)
(* Time is the reading of time.time(), kept as an integer number of        *)
(* seconds.  The specifications share the variables:                       *)
(*   SpecRL    - direct calls of _rate_limit_allows by one caller          *)
(*   SpecEnhancedCache, SpecSingleCache - get/set on the two ResponseCache *)
(*               classes                                                   *)
(*   SpecChat  - whole requests of answer_question_structured              *)
(*   SpecAnswer - calls of answer_question                                 *)
(*   SpecSingleAnswer - calls of SingleChatbot.answer                      *)
(*   SpecMeals - calls of UnifiedDatasetLoader.get_meals_by_preference     *)
(*   SpecNormalize - calls of the filter-value normalizers                 *)
(*   SpecIndex - loading rows, _build_fast_indexes, search_food_exact      *)
(*   SpecFuzzy - the fuzzy searches and rebuilds on a constructed loader   *)
(*   SpecLoad  - _load_all_datasets on the disks it can find               *)
(*   SpecIntent - classify_intent as a function of the question            *)
(*   SpecPolarity - the three places that sort dos/donts rows by type      *)
(*   SpecValidate - the question routes and their length checks            *)
(*   SpecThreads - _rate_limit_allows interleaved between request threads  *)
(***************************************************************************)
EXTENDS Integers, Sequences, FiniteSets, TLC

VARIABLES
    clock,          \* time.time()
    recent_calls,   \* ComprehensiveChatbot._recent_calls (deque of timestamps)
    rl_log,         \* history: one record per _rate_limit_allows call of SpecRL
    ecache,         \* enhanced_chatbot_with_api.ResponseCache.cache
    sstore,         \* single_chatbot_app.ResponseCache.store
    cret,           \* history: the last ResponseCache.get and what it returned
    response_cache, \* ComprehensiveChatbot._response_cache
    solar_available,\* ComprehensiveChatbot.solar_available (with key, model, client)
    req,            \* history: the last answer_question_structured request
    meals,          \* UnifiedDatasetLoader.meals
    pref_cache,     \* UnifiedDatasetLoader._preference_cache
    call,           \* history: the last call of a method checked on its own
    loader_food_index,     \* UnifiedDatasetLoader.food_index
    loader_keyword_index,  \* UnifiedDatasetLoader.keyword_index
    loader_dos_donts_index,\* UnifiedDatasetLoader.dos_donts_index
    guidance,       \* UnifiedDatasetLoader.guidance
    loading_stats,  \* UnifiedDatasetLoader.loading_stats
    threads         \* the request threads inside _rate_limit_allows

vars == <<clock, recent_calls, rl_log, ecache, sstore, cret,
          response_cache, solar_available, req, meals, pref_cache, call,
          loader_food_index, loader_keyword_index, loader_dos_donts_index,
          guidance, loading_stats, threads>>
\* the variables the loader's other indexes, its loading and the request
\* threads add
restVars == <<loader_keyword_index, loader_dos_donts_index, guidance,
              loading_stats, threads>>
loaderVars == <<meals, pref_cache, call, loader_food_index, restVars>>
chatVars == <<response_cache, solar_available, req>>
rlVars == <<recent_calls, rl_log>>
cacheVars == <<ecache, sstore, cret>>

---------------------------------------------------------------------------
(* Bounds of the model and configuration values *)

\* CHATBOT_RATE_LIMIT_PER_MIN, the configured quota (self.rate_limit_per_min)
rate_limit_per_min == 2
\* the sliding window of _rate_limit_allows, in seconds
window == 60
\* granularity of the clock readings of SpecRL
Step == 20
\* last clock reading of SpecRL
MaxTime == 140
\* number of _rate_limit_allows calls recorded in SpecRL
MaxCalls == 5
\* ResponseCache(ttl_minutes=60) of EnhancedDosDontsChatbot
ttl_minutes == 60
\* ResponseCache(ttl_seconds=3600) of SingleChatbot
ttl_seconds == 3600
\* granularity and last reading of the clock of SpecCache
CacheStep == 1200
MaxCacheTime == 4800
\* CACHE_TTL_SECONDS, the configured TTL of _response_cache (self._cache_ttl)
cache_ttl == 60
\* seconds between two clock readings of SpecChat, and the last reading
ChatStep == 40
MaxChatTime == 80
\* number of answers SpecChat lets _response_cache hold
MaxCached == 1
\* the value of a lookup that found nothing (Python's None)
None == [none |-> TRUE]
\* cache keys and payloads of SpecCache
CacheKeys == {"k1", "k2"}
Payloads == {[answer |-> "a1", source |-> "dataset"],
             [answer |-> "a2", source |-> "generic"]}

---------------------------------------------------------------------------
(* The rate limiter: ComprehensiveChatbot._rate_limit_allows *)

PruneNever(q, now) == q

\* while self._recent_calls and now - self._recent_calls[0] > window: popleft()
RECURSIVE Prune(_, _)
Prune(q, now) ==
    IF q # <<>> /\ now - Head(q) > window
    THEN Prune(Tail(q), now)
    ELSE q

RateLimitAllowsOffByOne(q, now) ==
    LET p == Prune(q, now) IN
    IF Len(p) > rate_limit_per_min
    THEN [ok |-> FALSE, calls |-> p]
    ELSE [ok |-> TRUE, calls |-> Append(p, now)]

\* the whole method: the returned flag and the deque it leaves
RateLimitAllows(q, now) ==
    LET p == Prune(q, now) IN
    IF Len(p) >= rate_limit_per_min
    THEN [ok |-> FALSE, calls |-> p]
    ELSE [ok |-> TRUE, calls |-> Append(p, now)]

---------------------------------------------------------------------------
(* SpecRL: one sequential caller, non-decreasing clock *)

InitRL ==
    /\ clock = 0
    /\ recent_calls = <<>>
    /\ rl_log = <<>>
    /\ ecache = <<>>
    /\ sstore = <<>>
    /\ cret = None
    /\ response_cache = <<>>
    /\ solar_available = FALSE
    /\ req = None
    /\ meals = <<>>
    /\ pref_cache = <<>>
    /\ call = None
    /\ loader_food_index = <<>>
    /\ loader_keyword_index = <<>> /\ loader_dos_donts_index = <<>>
    /\ guidance = <<>> /\ loading_stats = None /\ threads = <<>>

\* the clock moves on between two calls
TickRL ==
    /\ clock + Step <= MaxTime
    /\ clock' = clock + Step
    /\ UNCHANGED <<rlVars, cacheVars, chatVars, loaderVars>>

\* one call of _rate_limit_allows(); the log keeps what the caller saw
RateLimitCall ==
    /\ Len(rl_log) < MaxCalls
    /\ LET r == RateLimitAllows(recent_calls, clock) IN
        /\ recent_calls' = r.calls
        /\ rl_log' = Append(rl_log,
              [t |-> clock, ok |-> r.ok, before |-> recent_calls, after |-> r.calls])
    /\ UNCHANGED <<clock, cacheVars, chatVars, loaderVars>>

NextRL == TickRL \/ RateLimitCall

SpecRL == InitRL /\ [][NextRL]_vars

\* the calls of the log that returned true, with a timestamp in [lo, hi]
AllowedIn(lo, hi) ==
    {i \in DOMAIN rl_log : rl_log[i].ok /\ lo <= rl_log[i].t /\ rl_log[i].t <= hi}

\* the allowed calls before call i that are at most `window` seconds older
AllowedBefore(i) ==
    {j \in 1..(i - 1) : rl_log[j].ok /\ rl_log[i].t - rl_log[j].t <= window}

\* a is what is left of b after dropping entries from its front
IsSuffix(a, b) ==
    \E k \in 0..Len(b) : a = SubSeq(b, k + 1, Len(b))

\* C1: for one sequential caller with a non-decreasing clock, the calls that
\* returned true and whose timestamps lie in the 60 seconds that end at any
\* time t (both ends included) never number more than rate_limit_per_min.
C1_QuotaPerWindow ==
    \A t \in 0..clock :
        Cardinality(AllowedIn(t - window, t)) <= rate_limit_per_min

\* C1 witness: the quota was used up, a call was denied, and a later call
\* was allowed again after the window moved on.
C1_Witness ==
    /\ \E i \in DOMAIN rl_log : ~rl_log[i].ok
    /\ Cardinality(AllowedIn(0, clock)) > rate_limit_per_min

\* C2: from an empty queue the first Q calls all return true; a call that
\* has Q allowed calls at most 60 s before it returns false and only prunes
\* the queue (no timestamp is added); a call made when every earlier allowed
\* call is more than 60 s old returns true and stamps the queue.
C2_QuotaThenDenyThenAllow ==
    \A i \in DOMAIN rl_log :
        /\ Cardinality({j \in 1..(i - 1) : rl_log[j].ok}) < rate_limit_per_min
              => rl_log[i].ok
        /\ Cardinality(AllowedBefore(i)) >= rate_limit_per_min
              => /\ ~rl_log[i].ok
                 /\ IsSuffix(rl_log[i].after, rl_log[i].before)
        /\ AllowedBefore(i) = {}
              => /\ rl_log[i].ok
                 /\ rl_log[i].after = <<rl_log[i].t>>

\* C2 witness: Q calls at one instant, the (Q+1)-th denied inside the window,
\* and a call after the window has elapsed allowed again.
C2_Witness ==
    /\ Len(rl_log) >= rate_limit_per_min + 2
    /\ \A i \in 1..rate_limit_per_min : rl_log[i].ok /\ rl_log[i].t = rl_log[1].t
    /\ ~rl_log[rate_limit_per_min + 1].ok
    /\ rl_log[rate_limit_per_min + 1].t - rl_log[1].t < window
    /\ rl_log[rate_limit_per_min + 2].ok
    /\ rl_log[rate_limit_per_min + 2].t - rl_log[1].t > window

---------------------------------------------------------------------------
(* The two ResponseCache classes.  A cache is a function from the keys it    *)
(* holds to an entry; the empty dict is the function with the empty domain.  *)

\* dict with d[k] = v stored (insert or overwrite)
DictPut(d, k, v) == [x \in DOMAIN d \cup {k} |-> IF x = k THEN v ELSE d[x]]
\* dict.pop(k, None)
DictPop(d, k) == [x \in DOMAIN d \ {k} |-> d[x]]

\* enhanced_chatbot_with_api.ResponseCache.__init__: self.ttl = ttl_minutes * 60
EnhancedTtl == ttl_minutes * 60

\* enhanced_chatbot_with_api.ResponseCache.get: the value returned
EnhancedGet(cache, key, now) ==
    IF key \in DOMAIN cache /\ now - cache[key].timestamp < EnhancedTtl
    THEN cache[key].response
    ELSE None

\* enhanced_chatbot_with_api.ResponseCache.set
EnhancedSet(cache, key, response, now) ==
    DictPut(cache, key, [response |-> response, timestamp |-> now])

\* single_chatbot_app.ResponseCache.get: the value returned and the store left
SingleGet(store, key, now) ==
    IF key \notin DOMAIN store
    THEN [val |-> None, store |-> store]
    ELSE IF now - store[key].ts > ttl_seconds
         THEN [val |-> None, store |-> DictPop(store, key)]
         ELSE [val |-> store[key].val, store |-> store]

\* single_chatbot_app.ResponseCache.set
SingleSet(store, key, value, now) ==
    DictPut(store, key, [val |-> value, ts |-> now])

InitCache ==
    /\ clock = 0
    /\ recent_calls = <<>>
    /\ rl_log = <<>>
    /\ ecache = <<>>
    /\ sstore = <<>>
    /\ cret = None
    /\ response_cache = <<>>
    /\ solar_available = FALSE
    /\ req = None
    /\ meals = <<>>
    /\ pref_cache = <<>>
    /\ call = None
    /\ loader_food_index = <<>>
    /\ loader_keyword_index = <<>> /\ loader_dos_donts_index = <<>>
    /\ guidance = <<>> /\ loading_stats = None /\ threads = <<>>

TickCache ==
    /\ clock + CacheStep <= MaxCacheTime
    /\ clock' = clock + CacheStep
    /\ UNCHANGED <<rlVars, cacheVars, chatVars, loaderVars>>

EnhancedSetCall ==
    \E k \in CacheKeys, p \in Payloads :
        /\ ecache' = EnhancedSet(ecache, k, p, clock)
        /\ UNCHANGED <<clock, rlVars, sstore, cret, chatVars, loaderVars>>

EnhancedGetCall ==
    \E k \in CacheKeys :
        /\ cret' = [cls |-> "enhanced", key |-> k, t |-> clock,
                    stored |-> IF k \in DOMAIN ecache THEN ecache[k] ELSE None,
                    val |-> EnhancedGet(ecache, k, clock)]
        /\ UNCHANGED <<clock, rlVars, ecache, sstore, chatVars, loaderVars>>

SingleSetCall ==
    \E k \in CacheKeys, p \in Payloads :
        /\ sstore' = SingleSet(sstore, k, p, clock)
        /\ UNCHANGED <<clock, rlVars, ecache, cret, chatVars, loaderVars>>

SingleGetCall ==
    \E k \in CacheKeys :
        LET r == SingleGet(sstore, k, clock) IN
        /\ sstore' = r.store
        /\ cret' = [cls |-> "single", key |-> k, t |-> clock,
                    stored |-> IF k \in DOMAIN sstore
                               THEN [response |-> sstore[k].val, timestamp |-> sstore[k].ts]
                               ELSE None,
                    val |-> r.val]
        /\ UNCHANGED <<clock, rlVars, ecache, chatVars, loaderVars>>

\* the cache object of EnhancedDosDontsChatbot
NextEnhancedCache ==
    \/ TickCache
    \/ EnhancedSetCall
    \/ EnhancedGetCall

SpecEnhancedCache == InitCache /\ [][NextEnhancedCache]_vars

\* the cache object of SingleChatbot
NextSingleCache ==
    \/ TickCache
    \/ SingleSetCall
    \/ SingleGetCall

SpecSingleCache == InitCache /\ [][NextSingleCache]_vars

\* the last get found an entry under its key, stored at cret.stored.timestamp
CacheRead == cret # None /\ cret.stored # None
CacheAge == cret.t - cret.stored.timestamp
CacheHit == cret.val # None

\* C9: a read at time t of an entry inserted at T0 is a hit if and only if
\* t - T0 < TTL; a read at exactly T0 + TTL is a miss.  Stated for
\* single_chatbot_app.ResponseCache.get.
C9_SingleHitIffYoungerThanTtl ==
    CacheRead => (CacheHit <=> CacheAge < ttl_seconds)

\* C9 for enhanced_chatbot_with_api.ResponseCache.get, which keeps it.
C9_EnhancedHitIffYoungerThanTtl ==
    CacheRead => (CacheHit <=> CacheAge < EnhancedTtl)

\* what single_chatbot_app.ResponseCache.get does: an entry is a hit until
\* it is strictly older than the TTL, so it is still returned at T0 + TTL.
C9_SingleHitIffNotOlderThanTtl ==
    CacheRead => (CacheHit <=> CacheAge <= ttl_seconds)

---------------------------------------------------------------------------
(* Questions.  A question is its lowercased text as a sequence of words; a  *)
(* phrase of the code's keyword lists is found in it when its words occur   *)
(* consecutively.  No word of the vocabulary contains another one.          *)

Questions ==
    { <<"can", "i", "eat", "papaya">>,
      <<"can", "i", "eat", "kiwi">>,
      <<"can", "i", "eat", "fish">>,
      <<"is", "it", "safe">>,
      <<"benefits", "kiwi">>,
      <<"benefits", "milk">>,
      <<"kiwi">>,
      <<"idli">>,
      <<"idly">>,
      <<"milk">>,
      <<"meal", "plan">>,
      <<"foods", "not", "eat">>,
      <<"trimester">>,
      <<"summer">> }

\* the trimester argument; NoTrimester is Python's None
NoTrimester == 0
Trimesters == {NoTrimester, 2}

\* the characters of the words of the vocabulary
Chars(w) ==
    CASE w = "i" -> <<"i">>
      [] w = "is" -> <<"i", "s">>
      [] w = "it" -> <<"i", "t">>
      [] w = "can" -> <<"c", "a", "n">>
      [] w = "eat" -> <<"e", "a", "t">>
      [] w = "not" -> <<"n", "o", "t">>
      [] w = "kiwi" -> <<"k", "i", "w", "i">>
      [] w = "fish" -> <<"f", "i", "s", "h">>
      [] w = "safe" -> <<"s", "a", "f", "e">>
      [] w = "idli" -> <<"i", "d", "l", "i">>
      [] w = "idly" -> <<"i", "d", "l", "y">>
      [] w = "milk" -> <<"m", "i", "l", "k">>
      [] w = "meal" -> <<"m", "e", "a", "l">>
      [] w = "plan" -> <<"p", "l", "a", "n">>
      [] w = "foods" -> <<"f", "o", "o", "d", "s">>
      [] w = "papaya" -> <<"p", "a", "p", "a", "y", "a">>
      [] w = "summer" -> <<"s", "u", "m", "m", "e", "r">>
      [] w = "benefits" -> <<"b", "e", "n", "e", "f", "i", "t", "s">>
      [] w = "trimester" -> <<"t", "r", "i", "m", "e", "s", "t", "e", "r">>
      [] w = "walking" -> <<"w", "a", "l", "k", "i", "n", "g">>

\* len(word)
WordLen(w) == Len(Chars(w))

\* `phrase in question_lower` for a phrase given as its words
Contains(q, ph) ==
    \E i \in 1..(Len(q) - Len(ph) + 1) : SubSeq(q, i, i + Len(ph) - 1) = ph

ContainsAny(q, phrases) == \E ph \in phrases : Contains(q, ph)

MealPlanWords ==
    { <<"meal", "plan">>, <<"diet", "plan">>, <<"what", "to", "eat">>,
      <<"what", "should", "i", "eat">>, <<"daily", "diet">>, <<"menu">>,
      <<"breakfast">>, <<"lunch">>, <<"dinner">>, <<"snack">> }
SafetyWords ==
    { <<"can", "i", "eat">>, <<"is", "it", "safe">>, <<"should", "i", "avoid">>,
      <<"can", "i", "have">>, <<"safe", "to", "eat">>, <<"okay", "to", "eat">> }
AvoidWords ==
    { <<"avoid">>, <<"dont", "eat">>, <<"not", "eat">>, <<"shouldn't", "eat">>,
      <<"dangerous">>, <<"foods", "to", "avoid">>, <<"what", "not", "to">> }
BenefitsWords ==
    { <<"benefits">>, <<"good", "for">>, <<"why", "eat">>, <<"nutrients">>,
      <<"nutritional">>, <<"advantages">>, <<"helps", "with">>, <<"benefit", "of">> }
TrimesterWords ==
    { <<"trimester">>, <<"first", "trimester">>, <<"second", "trimester">>,
      <<"third", "trimester">>, <<"1st">>, <<"2nd">>, <<"3rd">>,
      <<"1", "trimester">>, <<"2", "trimester">>, <<"3", "trimester">> }
SeasonalWords ==
    { <<"summer">>, <<"winter">>, <<"monsoon">>, <<"seasonal">>, <<"season">> }
RegionalWords ==
    { <<"north", "indian">>, <<"south", "indian">>, <<"regional">> }

\* classify_intent with the safety bucket tested before the meal-plan bucket
classify_intentSafetyFirst(q) ==
    IF ContainsAny(q, SafetyWords) THEN "safety_check"
    ELSE IF ContainsAny(q, MealPlanWords) THEN "meal_plan"
    ELSE IF ContainsAny(q, AvoidWords) THEN "foods_to_avoid"
    ELSE IF ContainsAny(q, BenefitsWords) THEN "benefits"
    ELSE IF ContainsAny(q, TrimesterWords) THEN "trimester_specific"
    ELSE IF ContainsAny(q, SeasonalWords) THEN "seasonal"
    ELSE IF ContainsAny(q, RegionalWords) THEN "regional"
    ELSE "general"

\* ComprehensiveChatbot.classify_intent: the first bucket that matches
classify_intent(q) ==
    IF ContainsAny(q, MealPlanWords) THEN "meal_plan"
    ELSE IF ContainsAny(q, SafetyWords) THEN "safety_check"
    ELSE IF ContainsAny(q, AvoidWords) THEN "foods_to_avoid"
    ELSE IF ContainsAny(q, BenefitsWords) THEN "benefits"
    ELSE IF ContainsAny(q, TrimesterWords) THEN "trimester_specific"
    ELSE IF ContainsAny(q, SeasonalWords) THEN "seasonal"
    ELSE IF ContainsAny(q, RegionalWords) THEN "regional"
    ELSE "general"

\* the knowledge base built from the datasets: the keys of
\* knowledge_base['foods_to_eat'] and knowledge_base['foods_to_avoid']
foods_to_eat == {"milk"}
foods_to_avoid == {"papaya"}
\* knowledge_base['dos_donts']: the Item of each row, by normalized Type
kb_dos == {"walking"}
kb_donts == {"papaya"}

common_foods ==
    { "egg", "eggs", "milk", "fish", "meat", "chicken", "vegetables", "fruits",
      "dairy", "nuts", "grains", "rice", "wheat", "lentil", "dal",
      "papaya", "pineapple", "mango", "banana", "apple", "spinach", "orange",
      "yogurt", "curd", "cheese", "paneer", "ghee", "butter",
      "potato", "tomato", "onion", "garlic", "ginger",
      "bread", "roti", "chapati", "idli", "dosa",
      "sweet", "chocolate", "coffee", "tea", "juice",
      "almond", "walnut", "cashew", "dates", "raisins",
      "salmon", "tuna", "shrimp", "prawn",
      "mutton", "lamb", "pork", "beef",
      "avocado", "quinoa", "tofu", "hummus", "pomegranate", "oats",
      "broccoli", "carrot", "cucumber", "lettuce", "kale",
      "strawberry", "blueberry", "watermelon", "grapes", "coconut" }

skip_words ==
    { "can", "could", "should", "would", "is", "are", "was", "were",
      "have", "has", "had", "do", "does", "did", "will", "shall",
      "eat", "drink", "consume", "take", "safe", "okay", "good", "bad",
      "during", "pregnancy", "pregnant", "trimester", "women", "woman",
      "about", "what", "which", "when", "where", "who", "how", "why",
      "the", "a", "an", "and", "or", "but", "in", "on", "at", "to", "for",
      "with", "from", "of", "by", "as", "this", "that", "these", "those",
      "it", "its", "my", "your", "me", "you", "he", "she", "we", "they" }

Words(q) == {q[i] : i \in DOMAIN q}

\* the set that extract_keywords turns into a list: dataset foods and common
\* foods found in the question, and its words of 3+ letters outside skip_words
KeywordSet(q) ==
    {f \in foods_to_eat \cup foods_to_avoid \cup common_foods : Contains(q, <<f>>)}
    \cup {w \in Words(q) : WordLen(w) >= 3 /\ w \notin skip_words}

\* the orders list(set(keywords)) can give
RECURSIVE Orders(_)
Orders(S) ==
    IF S = {} THEN {<<>>}
    ELSE UNION {{<<x>> \o o : o \in Orders(S \ {x})} : x \in S}

\* lst[:n]
Take(lst, n) == SubSeq(lst, 1, IF n < Len(lst) THEN n ELSE Len(lst))

\* the lists extract_keywords can return: list(set(keywords))[:5]
extract_keywords(q) == {Take(o, 5) : o \in Orders(KeywordSet(q))}

---------------------------------------------------------------------------
(* The external fallback: ComprehensiveChatbot._ask_solar *)

\* what the remote chat completion can do
RemoteOutcomes == {"text", "blank", "nochoices", "alarm", "error"}

\* self.solar_client.chat.completions.create(...): the exception it ends in
\* (TimeoutError from the SIGALRM handler, any other Exception from the
\* client) or the response it returns
RemoteCall(outcome) ==
    CASE outcome = "text"      -> [exc |-> "none", choices |-> TRUE, content |-> "ai"]
      [] outcome = "blank"     -> [exc |-> "none", choices |-> TRUE, content |-> ""]
      [] outcome = "nochoices" -> [exc |-> "none", choices |-> FALSE, content |-> ""]
      [] outcome = "alarm"     -> [exc |-> "TimeoutError", choices |-> FALSE, content |-> ""]
      [] outcome = "error"     -> [exc |-> "Exception", choices |-> FALSE, content |-> ""]

AskSolarNoCatchAll(configured, outcome) ==
    IF ~configured THEN [raised |-> FALSE, val |-> "", remote |-> FALSE]
    ELSE LET r == RemoteCall(outcome) IN
         IF r.exc = "TimeoutError" THEN [raised |-> FALSE, val |-> "", remote |-> TRUE]
         ELSE IF r.exc # "none" THEN [raised |-> TRUE, val |-> "", remote |-> TRUE]
         ELSE IF r.choices THEN [raised |-> FALSE, val |-> r.content, remote |-> TRUE]
         ELSE [raised |-> FALSE, val |-> "", remote |-> TRUE]

\* _ask_solar: whether it raises to its caller, the string it returns, and
\* whether the provider was called
AskSolar(configured, outcome) ==
    IF ~configured THEN [raised |-> FALSE, val |-> "", remote |-> FALSE]
    ELSE LET r == RemoteCall(outcome) IN
         IF r.exc = "TimeoutError" THEN [raised |-> FALSE, val |-> "", remote |-> TRUE]
         ELSE IF r.exc # "none" THEN [raised |-> FALSE, val |-> "", remote |-> TRUE]
         ELSE IF r.choices THEN [raised |-> FALSE, val |-> r.content, remote |-> TRUE]
         ELSE [raised |-> FALSE, val |-> "", remote |-> TRUE]

---------------------------------------------------------------------------
(* The request handlers of ComprehensiveChatbot.  A handler works on a       *)
(* context ctx = [calls, ev, raised]: the rate limiter's deque, the events   *)
(* of the request so far (rate-limit checks and _ask_solar calls, in order)  *)
(* and whether an exception is propagating; env = [now, cfg, outs] is the    *)
(* clock reading, solar_available and the outcome of the i-th remote call.   *)
(* An answer is the sequence of its parts, a part is [kind, of].             *)

Part(kind, of) == [kind |-> kind, of |-> of]

SolarEvents(ev) == {i \in DOMAIN ev : ev[i].e = "solar"}

\* the _ask_solar calls that reached the provider
RemoteCalls(ev) == {i \in SolarEvents(ev) : ev[i].remote}

\* a call of self._rate_limit_allows() inside a request
CheckRate(ctx, env) ==
    LET r == RateLimitAllows(ctx.calls, env.now) IN
    [ctx |-> [ctx EXCEPT !.calls = r.calls,
                         !.ev = Append(@, [e |-> "rl", ok |-> r.ok])],
     ok |-> r.ok]

\* a call of self._ask_solar(prompt) by handler `who` about `of`
Ask(ctx, env, who, of) ==
    LET n == Cardinality(RemoteCalls(ctx.ev)) + 1
        out == IF n \in DOMAIN env.outs THEN env.outs[n] ELSE "blank"
        r == AskSolar(env.cfg, out) IN
    [ctx |-> [ctx EXCEPT !.raised = @ \/ r.raised,
                         !.ev = Append(@, [e |-> "solar", who |-> who, of |-> of,
                                           val |-> r.val, remote |-> r.remote,
                                           out |-> IF r.remote THEN out ELSE "unconfigured"])],
     val |-> r.val]

\* the foods _get_general_food_safety has fixed guidance for
FixedGuidanceFoods ==
    { "fish", "salmon", "tuna", "shrimp", "prawn", "seafood", "egg", "eggs",
      "milk", "dairy", "cheese", "yogurt", "curd",
      "meat", "chicken", "mutton", "lamb", "pork", "beef",
      "fruits", "vegetables", "fruit", "vegetable" }

\* _get_general_food_safety(food): the text returned
GetGeneralFoodSafety(food, ctx, env) ==
    IF food \in FixedGuidanceFoods
    THEN [ctx |-> ctx, parts |-> <<Part("fixed_guidance", food)>>]
    ELSE LET a == Ask(ctx, env, "food_safety", food) IN
         IF a.val # ""
         THEN [ctx |-> a.ctx, parts |-> <<Part("solar_food_safety", food)>>]
         ELSE [ctx |-> a.ctx, parts |-> <<Part("static_consult_provider", food)>>]

\* for keyword in keywords: answer_parts.append(self._get_general_food_safety(keyword))
RECURSIVE GeneralFoodSafetyAll(_, _, _)
GeneralFoodSafetyAll(kws, ctx, env) ==
    IF kws = <<>> THEN [ctx |-> ctx, parts |-> <<>>]
    ELSE LET h == GetGeneralFoodSafety(Head(kws), ctx, env)
             t == GeneralFoodSafetyAll(Tail(kws), h.ctx, env)
         IN [ctx |-> t.ctx, parts |-> h.parts \o t.parts]

\* the (keyword, info) pairs picked by the first loop of _handle_safety_question
UnsafeFoods(kws) == SelectSeq(kws, LAMBDA k : k \in foods_to_avoid)
SafeFoods(kws) == SelectSeq(kws, LAMBDA k : k \notin foods_to_avoid /\ k \in foods_to_eat)

PartsOf(kind, kws) == [i \in DOMAIN kws |-> Part(kind, kws[i])]

\* _handle_safety_question(keywords)
HandleSafetyQuestion(kws, ctx, env) ==
    LET rl == CheckRate(ctx, env) IN
    IF ~rl.ok
    THEN \* returns the str "Rate limit reached. ..." where a list is expected
         [ctx |-> rl.ctx, parts |-> <<Part("rate_limit_reached", "")>>]
    ELSE IF UnsafeFoods(kws) = <<>> /\ SafeFoods(kws) = <<>> /\ kws # <<>>
    THEN LET g == GeneralFoodSafetyAll(kws, rl.ctx, env) IN
         [ctx |-> g.ctx, parts |-> <<Part("food_safety_header", "")>> \o g.parts]
    ELSE [ctx |-> rl.ctx,
          parts |-> PartsOf("avoid", UnsafeFoods(kws)) \o PartsOf("safe", SafeFoods(kws))
                    \o (IF UnsafeFoods(kws) # <<>> \/ SafeFoods(kws) # <<>>
                        THEN <<Part("safety_tips", "")>> ELSE <<>>)]

\* the loop of _handle_benefits_question
RECURSIVE BenefitsLoop(_, _, _)
BenefitsLoop(kws, ctx, env) ==
    IF kws = <<>> THEN [ctx |-> ctx, parts |-> <<>>]
    ELSE IF Head(kws) \in foods_to_eat
    THEN LET t == BenefitsLoop(Tail(kws), ctx, env) IN
         [ctx |-> t.ctx, parts |-> <<Part("benefit", Head(kws))>> \o t.parts]
    ELSE LET a == Ask(ctx, env, "benefits", Head(kws))
             t == BenefitsLoop(Tail(kws), a.ctx, env)
         IN [ctx |-> t.ctx,
             parts |-> (IF a.val # "" THEN <<Part("solar_benefit", Head(kws))>> ELSE <<>>)
                       \o t.parts]

\* _handle_benefits_question(keywords)
HandleBenefitsQuestion(kws, ctx, env) ==
    LET l == BenefitsLoop(kws, ctx, env) IN
    [ctx |-> l.ctx,
     parts |-> <<Part("benefits_header", "")>> \o l.parts
               \o (IF l.parts = <<>> THEN <<Part("static_key_nutrients", "")>> ELSE <<>>)]

\* for keyword in keywords[:3]: solar_info = self._ask_solar(...)
RECURSIVE GeneralSolarLoop(_, _, _)
GeneralSolarLoop(kws, ctx, env) ==
    IF kws = <<>> THEN [ctx |-> ctx, parts |-> <<>>]
    ELSE LET a == Ask(ctx, env, "general", Head(kws))
             t == GeneralSolarLoop(Tail(kws), a.ctx, env)
         IN [ctx |-> t.ctx,
             parts |-> (IF a.val # "" THEN <<Part("solar_general", Head(kws))>> ELSE <<>>)
                       \o t.parts]

\* _handle_general_question(keywords, trimester)
HandleGeneralQuestion(kws, ctx, env) ==
    LET found == SelectSeq(kws, LAMBDA k : k \in foods_to_eat) IN
    IF found = <<>> /\ kws # <<>>
    THEN GeneralSolarLoop(Take(kws, 3), ctx, env)
    ELSE [ctx |-> ctx, parts |-> PartsOf("food_info", found)]

---------------------------------------------------------------------------
(* The fast lookup index of UnifiedDatasetLoader, as the chatbot uses it *)

\* the keys of food_index and of dos_donts_index, in insertion order
food_index == <<"idli">>
dos_donts_index == <<"papaya">>

Range(f) == {f[i] : i \in DOMAIN f}
Min2(a, b) == IF a < b THEN a ELSE b

\* length of the common run of a from i and b from j, inside a[..ahi], b[..bhi]
RECURSIVE RunLen(_, _, _, _, _, _)
RunLen(a, b, i, j, ahi, bhi) ==
    IF i > ahi \/ j > bhi \/ a[i] # b[j] THEN 0
    ELSE 1 + RunLen(a, b, i + 1, j + 1, ahi, bhi)

\* difflib.SequenceMatcher.find_longest_match: the longest common block of
\* a[alo..ahi] and b[blo..bhi], the earliest in a and then in b among equals
LongestMatch(a, b, alo, ahi, blo, bhi) ==
    LET cand == {<<i, j>> \in (alo..ahi) \X (blo..bhi) : TRUE}
        best == IF cand = {} THEN 0
                ELSE CHOOSE k \in 0..(ahi - alo + 1) :
                        /\ \E c \in cand : RunLen(a, b, c[1], c[2], ahi, bhi) = k
                        /\ \A c \in cand : RunLen(a, b, c[1], c[2], ahi, bhi) <= k
        at == {c \in cand : RunLen(a, b, c[1], c[2], ahi, bhi) = best}
        first == CHOOSE c \in at :
                    \A d \in at : c[1] < d[1] \/ (c[1] = d[1] /\ c[2] <= d[2])
    IN IF best = 0 THEN [i |-> alo, j |-> blo, k |-> 0]
       ELSE [i |-> first[1], j |-> first[2], k |-> best]

\* the number of matched characters of get_matching_blocks()
RECURSIVE MatchCount(_, _, _, _, _, _)
MatchCount(a, b, alo, ahi, blo, bhi) ==
    IF alo > ahi \/ blo > bhi THEN 0
    ELSE LET m == LongestMatch(a, b, alo, ahi, blo, bhi) IN
         IF m.k = 0 THEN 0
         ELSE m.k + MatchCount(a, b, alo, m.i - 1, blo, m.j - 1)
                  + MatchCount(a, b, m.i + m.k, ahi, m.j + m.k, bhi)

\* difflib.SequenceMatcher(None, x, y).ratio() >= pct / 100, where
\* ratio() = 2 * matches / (len(x) + len(y))
SimilarAtLeast(x, y, pct) ==
    LET a == Chars(x)
        b == Chars(y)
    IN 200 * MatchCount(a, b, 1, Len(a), 1, Len(b)) >= pct * (Len(a) + Len(b))

\* search_food_fuzzy / search_dos_donts_fuzzy over the keys of one index:
\* the exact key alone, else the keys at or above the threshold, at most 10
SearchFuzzy(index, query, pct) ==
    IF query \in Range(index) THEN <<query>>
    ELSE Take(SelectSeq(index, LAMBDA key : SimilarAtLeast(query, key, pct)), 10)

\* UnifiedDatasetLoader.quick_answer_from_cache(query), thresholds 0.75
QuickAnswerFromCache(query) ==
    IF query \in Range(food_index)
    THEN [found |-> TRUE, type |-> "food", data |-> query]
    ELSE IF query \in Range(dos_donts_index)
    THEN [found |-> TRUE, type |-> "dos_donts", data |-> query]
    ELSE IF SearchFuzzy(food_index, query, 75) # <<>>
    THEN [found |-> TRUE, type |-> "food", data |-> Head(SearchFuzzy(food_index, query, 75))]
    ELSE IF SearchFuzzy(dos_donts_index, query, 75) # <<>>
    THEN [found |-> TRUE, type |-> "dos_donts",
          data |-> Head(SearchFuzzy(dos_donts_index, query, 75))]
    ELSE [found |-> FALSE, type |-> "none", data |-> ""]

\* quick_answer_from_cache for every keyword that occurs in Questions
QuickTable == [k \in UNION {KeywordSet(q) : q \in Questions} |-> QuickAnswerFromCache(k)]

---------------------------------------------------------------------------
(* answer_question and answer_question_structured *)

\* f"{trimester or 'any'}"
TriStr(t) == CASE t = 1 -> "1" [] t = 2 -> "2" [] t = 3 -> "3" [] OTHER -> "any"

\* _get_general_answer(intent, trimester): one of the fixed texts
GetGeneralAnswer(intent) ==
    IF intent \in {"safety_check", "foods_to_avoid", "meal_plan", "trimester_specific",
                   "seasonal", "benefits", "general"}
    THEN <<Part("general_answer", intent)>>
    ELSE <<Part("general_answer", "general")>>

\* the handlers that read no keyword: _handle_meal_plan_question (region and
\* season are None here), _handle_foods_to_avoid_question,
\* _handle_trimester_question and _handle_seasonal_question (season is None)
HandleFixed(intent, trimester) ==
    CASE intent = "meal_plan" ->
            (IF trimester \in {1, 2, 3}
             THEN <<Part("meal_plan", TriStr(trimester))>> ELSE <<>>)
            \o <<Part("meal_planning_tips", "")>>
      [] intent = "foods_to_avoid" ->
            <<Part("avoid_list", ""), Part("avoid_guidelines", "")>>
      [] intent = "trimester_specific" ->
            IF trimester \in {1, 2, 3}
            THEN <<Part("trimester_guide", TriStr(trimester))>>
            ELSE <<Part("please_specify_trimester", "")>>
      [] intent = "seasonal" -> <<>>

\* if self._rate_limit_allows(): solar_ans = self._ask_solar(question) ...
\* return self._get_general_answer(intent, trimester)
SolarFallback(intent, ctx, env) ==
    LET rl == CheckRate(ctx, env) IN
    IF ~rl.ok THEN [ctx |-> rl.ctx, answer |-> GetGeneralAnswer(intent)]
    ELSE LET a == Ask(rl.ctx, env, "fallback", "") IN
         IF a.val # ""
         THEN [ctx |-> a.ctx, answer |-> <<Part("ai_answer", "")>>]
         ELSE [ctx |-> a.ctx, answer |-> GetGeneralAnswer(intent)]

\* the end of answer_question, from `if not answer_parts:` on; h is what the
\* handler of the intent returned
FinishAnswer(intent, h, trimester, env) ==
    IF h.parts = <<>> THEN SolarFallback(intent, h.ctx, env)
    ELSE IF h.parts \o (IF trimester # NoTrimester
                         THEN <<Part("consult_doctor_tip", "")>> ELSE <<>>) = <<>>
    THEN SolarFallback(intent, h.ctx, env)
    ELSE [ctx |-> h.ctx,
          answer |-> h.parts \o (IF trimester # NoTrimester
                                  THEN <<Part("consult_doctor_tip", "")>> ELSE <<>>)]

\* answer_question(question, trimester), with keywords = extract_keywords(question)
AnswerQuestion(q, kws, trimester, ctx, env) ==
    LET intent == classify_intent(q) IN
    IF intent \in {"meal_plan", "foods_to_avoid", "trimester_specific", "seasonal"}
    THEN FinishAnswer(intent, [ctx |-> ctx, parts |-> HandleFixed(intent, trimester)],
                      trimester, env)
    ELSE IF kws = <<>> THEN [ctx |-> ctx, answer |-> GetGeneralAnswer(intent)]
    ELSE IF intent = "safety_check" \/ Contains(q, <<"can", "i">>)
            \/ Contains(q, <<"is", "it", "safe">>)
    THEN FinishAnswer(intent, HandleSafetyQuestion(kws, ctx, env), trimester, env)
    ELSE IF intent = "benefits"
    THEN FinishAnswer(intent, HandleBenefitsQuestion(kws, ctx, env), trimester, env)
    ELSE FinishAnswer(intent, HandleGeneralQuestion(kws, ctx, env), trimester, env)

\* _get_general_dos_donts(topic): the built-in lists (their first entries)
GetGeneralDosDonts(topic) ==
    IF topic \in {"fish", "papaya", "egg", "milk"}
    THEN [dos |-> <<Part("guideline_do", topic)>>, donts |-> <<Part("guideline_dont", topic)>>]
    ELSE [dos |-> <<Part("default_do", "Consult with your doctor")>>,
          donts |-> <<Part("default_dont", "Avoid unprepared foods")>>]

\* get_dos_donts_answer(topic, trimester): the dos and donts lists
GetDosDontsAnswer(topic) ==
    LET kb == topic \in foods_to_eat \cup foods_to_avoid
        lists == ~kb /\ kb_dos # {}
        found == kb \/ (lists /\ topic \in kb_dos \cup kb_donts)
    IN IF ~found THEN GetGeneralDosDonts(topic)
       ELSE [dos |-> (IF topic \in foods_to_eat THEN <<Part("kb_eat", topic)>> ELSE <<>>)
                     \o (IF lists /\ topic \in kb_dos THEN <<Part("kb_do", topic)>> ELSE <<>>),
             donts |-> (IF topic \in foods_to_avoid THEN <<Part("kb_avoid", topic)>> ELSE <<>>)
                       \o (IF lists /\ topic \in kb_donts THEN <<Part("kb_dont", topic)>> ELSE <<>>)]

\* the Do's found by quick_answer_from_cache for keywords[:3]
RECURSIVE QuickDos(_)
QuickDos(kws) ==
    IF kws = <<>> THEN <<>>
    ELSE (IF QuickTable[Head(kws)].found
          THEN <<Part(QuickTable[Head(kws)].type, QuickTable[Head(kws)].data)>>
          ELSE <<>>) \o QuickDos(Tail(kws))

\* dos_final / donts_final of step 2: the first entry of each list for keywords[:2]
RECURSIVE StepTwoDosDonts(_)
StepTwoDosDonts(kws) ==
    IF kws = <<>> THEN [dos |-> <<>>, donts |-> <<>>]
    ELSE LET d == GetDosDontsAnswer(Head(kws))
             t == StepTwoDosDonts(Tail(kws))
         IN [dos |-> Take(d.dos, 1) \o t.dos, donts |-> Take(d.donts, 1) \o t.donts]

\* cache_key = f"{question.lower().strip()}_{trimester or 'any'}"
CacheKey(q, trimester) == <<q, TriStr(trimester)>>

\* if not keywords: keywords = [w for w in question.split() if len(w) > 3]
LongWords(q) == SelectSeq(q, LAMBDA w : WordLen(w) > 3)

\* the cache-hit branch: the stored dict is updated in place and returned
StructuredHit(cache, key, ctx) ==
    [hit |-> TRUE,
     result |-> [cache[key] EXCEPT !.response_time = 0, !.from_cache = TRUE],
     cache |-> DictPut(cache, key,
                       [cache[key] EXCEPT !.response_time = 0, !.from_cache = TRUE]),
     ctx |-> ctx]

\* the rest of answer_question_structured after a cache miss: quick is what
\* the index lookup put into dos_final, a is what answer_question returned
StructuredMiss(q, kws, key, intent, needs, quick, a, cache, env) ==
    IF needs /\ quick # <<>>
    THEN [hit |-> FALSE,
          result |-> [answer |-> a.answer, dos |-> quick, donts |-> <<>>,
                      keywords |-> kws, intent |-> intent, source |-> "database_cache",
                      response_time |-> 0, from_cache |-> TRUE],
          cache |-> cache, ctx |-> a.ctx]
    ELSE LET kws2 == IF needs /\ kws = <<>> THEN LongWords(q) ELSE kws
             dd == IF needs THEN StepTwoDosDonts(Take(kws2, 2))
                   ELSE [dos |-> <<>>, donts |-> <<>>]
             result == [answer |-> a.answer, dos |-> quick \o dd.dos, donts |-> dd.donts,
                        keywords |-> kws2, intent |-> intent, source |-> "ai_model",
                        response_time |-> 0, from_cache |-> FALSE, cache_time |-> env.now]
         IN [hit |-> FALSE, result |-> result,
             cache |-> DictPut(cache, key, result), ctx |-> a.ctx]

\* the intents for which Do's and Don'ts are built
NeedsDosDonts(intent) ==
    intent \in {"safety_check", "foods_to_avoid", "trimester_specific", "general"}

\* answer_question_structured(question, trimester): what it returns, the
\* cache and the context it leaves
AnswerQuestionStructured(q, kws, trimester, cache, ctx, env) ==
    IF /\ CacheKey(q, trimester) \in DOMAIN cache
       /\ env.now - cache[CacheKey(q, trimester)].cache_time < cache_ttl
    THEN StructuredHit(cache, CacheKey(q, trimester), ctx)
    ELSE StructuredMiss(q, kws, CacheKey(q, trimester), classify_intent(q),
                        NeedsDosDonts(classify_intent(q)),
                        IF NeedsDosDonts(classify_intent(q))
                        THEN QuickDos(Take(kws, 3)) ELSE <<>>,
                        AnswerQuestion(q, kws, trimester, ctx, env), cache, env)

---------------------------------------------------------------------------
(* SpecChat: requests of one sequential caller *)

\* the outcomes of the remote calls of one request, in call order, when
\* the request reaches the provider at most n times
OutcomeSeqs(n) == [1..n -> RemoteOutcomes]

\* a run of answer_question_structured in which every remote call comes back
\* blank (an outcome env.outs does not give is blank): no run of the same
\* request reaches the provider more often
BlankRun(q, kws, trimester, cache, ctx, env) ==
    AnswerQuestionStructured(q, kws, trimester, cache, ctx, [env EXCEPT !.outs = <<>>])

InitChat ==
    /\ clock = 0
    /\ recent_calls = <<>>
    /\ rl_log = <<>>
    /\ ecache = <<>>
    /\ sstore = <<>>
    /\ cret = None
    /\ response_cache = <<>>
    /\ solar_available \in BOOLEAN
    /\ req = None
    /\ meals = <<>>
    /\ pref_cache = <<>>
    /\ call = None
    /\ loader_food_index = <<>>
    /\ loader_keyword_index = <<>> /\ loader_dos_donts_index = <<>>
    /\ guidance = <<>> /\ loading_stats = None /\ threads = <<>>

TickChat ==
    /\ clock + ChatStep <= MaxChatTime
    /\ clock' = clock + ChatStep
    /\ UNCHANGED <<rlVars, cacheVars, chatVars, loaderVars>>

\* one request: chatbot.answer_question_structured(question, trimester)
Request ==
    \E q \in Questions, trimester \in Trimesters :
    \E kws \in extract_keywords(q) :
        LET key == CacheKey(q, trimester)
            ctx == [calls |-> recent_calls, ev |-> <<>>, raised |-> FALSE]
            env0 == [now |-> clock, cfg |-> solar_available, outs |-> <<>>]
        IN /\ key \in DOMAIN response_cache
              \/ Cardinality(DOMAIN response_cache) < MaxCached
           /\ \E n \in {Cardinality(RemoteCalls(
                            BlankRun(q, kws, trimester, response_cache, ctx, env0).ctx.ev))} :
              \E outs \in OutcomeSeqs(n) :
              \E r \in {AnswerQuestionStructured(q, kws, trimester, response_cache, ctx,
                                                  [env0 EXCEPT !.outs = outs])} :
                /\ recent_calls' = r.ctx.calls
                /\ response_cache' = IF r.ctx.raised THEN response_cache ELSE r.cache
                /\ req' = [q |-> q, trimester |-> trimester, kws |-> kws,
                           hit |-> r.hit, ev |-> r.ctx.ev, raised |-> r.ctx.raised,
                           result |-> r.result,
                           calls_before |-> recent_calls,
                           stored_before |-> IF key \in DOMAIN response_cache
                                             THEN response_cache[key] ELSE None,
                           stored_after |-> IF key \in DOMAIN r.cache
                                            THEN r.cache[key] ELSE None]
           /\ UNCHANGED <<clock, rl_log, cacheVars, solar_available, loaderVars>>

NextChat == TickChat \/ Request

SpecChat == InitChat /\ [][NextChat]_vars

---------------------------------------------------------------------------
(* SpecAnswer: calls of answer_question alone (no response cache) *)

\* one call chatbot.answer_question(question, trimester)
AnswerCall ==
    \E q \in Questions, trimester \in Trimesters :
    \E kws \in extract_keywords(q) :
        LET ctx == [calls |-> recent_calls, ev |-> <<>>, raised |-> FALSE]
            env0 == [now |-> clock, cfg |-> solar_available, outs |-> <<>>]
        IN \E n \in {Cardinality(RemoteCalls(
                         AnswerQuestion(q, kws, trimester, ctx, env0).ctx.ev))} :
           \E outs \in OutcomeSeqs(n) :
           \E a \in {AnswerQuestion(q, kws, trimester, ctx, [env0 EXCEPT !.outs = outs])} :
             /\ recent_calls' = a.ctx.calls
             /\ req' = [q |-> q, trimester |-> trimester, kws |-> kws,
                        hit |-> FALSE, ev |-> a.ctx.ev, raised |-> a.ctx.raised,
                        result |-> [answer |-> a.answer],
                        calls_before |-> recent_calls,
                        stored_before |-> None, stored_after |-> None]
             /\ UNCHANGED <<clock, rl_log, cacheVars, response_cache, solar_available, loaderVars>>

NextAnswer == TickChat \/ AnswerCall

SpecAnswer == InitChat /\ [][NextAnswer]_vars

---------------------------------------------------------------------------
(* Properties of one request *)

\* the parts of an answer that carry text returned by _ask_solar
SolarKinds == {"ai_answer", "solar_food_safety", "solar_benefit", "solar_general"}

AnswerParts == Range(req.result.answer)

\* C3: within one request _ask_solar is reached only after _rate_limit_allows()
\* returned True earlier in that request, on every intent path.
C3_SolarOnlyAfterRateAllowed ==
    req # None =>
        \A i \in RemoteCalls(req.ev) :
            \E j \in 1..(i - 1) : req.ev[j].e = "rl" /\ req.ev[j].ok

\* C4: one request reaches the external model at most once.
C4_AtMostOneExternalCall ==
    req # None => Cardinality(RemoteCalls(req.ev)) <= 1

\* C5: a request answered with source 'database_cache' (the index lookup found
\* a record for one of its keywords) never reaches the external model.
C5_NoExternalCallAfterLocalHit ==
    (req # None /\ ~req.hit /\ req.result.source = "database_cache")
        => RemoteCalls(req.ev) = {}

\* a safety question all of whose keywords are local foods
LocalSafetyRequest ==
    /\ req # None
    /\ ~req.hit
    /\ classify_intent(req.q) = "safety_check"
    /\ req.kws # <<>>
    /\ \A k \in Range(req.kws) : k \in foods_to_eat \cup foods_to_avoid

\* C6: a request answered entirely from local entries consumes no rate-limit
\* slot, and its answer does not depend on the quota being exhausted.
C6_LocalAnswerUsesNoRateSlot ==
    LocalSafetyRequest =>
        /\ \A i \in DOMAIN req.ev : req.ev[i].e # "rl"
        /\ recent_calls = req.calls_before
        /\ \A p \in AnswerParts : p.kind # "rate_limit_reached"

\* no response-cache hit and no local match for any keyword
NoLocalMatchRequest ==
    /\ req # None
    /\ ~req.hit
    /\ req.kws # <<>>
    /\ \A k \in Range(req.kws) :
            /\ ~QuickTable[k].found
            /\ k \notin foods_to_eat \cup foods_to_avoid \cup FixedGuidanceFoods

\* the rate limiter denied, or the fallback call returned ""
DeniedOrEmptyFallback ==
    \/ \E i \in DOMAIN req.ev : req.ev[i].e = "rl" /\ ~req.ev[i].ok
    \/ \E i \in SolarEvents(req.ev) : req.ev[i].who = "fallback" /\ req.ev[i].val = ""

\* C7: with no cache hit and no local match, when the rate limiter denies or
\* the fallback returns "", the structured answer has source 'generic', a
\* non-empty static answer, and uses no external result.
C7_GenericWhenNoFallback ==
    (NoLocalMatchRequest /\ DeniedOrEmptyFallback) =>
        /\ req.result.source = "generic"
        /\ req.result.answer # <<>>
        /\ \A p \in AnswerParts : p.kind \notin SolarKinds

\* what the caller of the i-th event does with an empty string
CallerGoesStatic(i) ==
    LET e == req.ev[i] IN
    /\ req.result.answer # <<>>
    /\ e.who = "food_safety" => Part("static_consult_provider", e.of) \in AnswerParts
    /\ e.who = "fallback" => \E p \in AnswerParts : p.kind = "general_answer"
    /\ e.who = "benefits" =>
          /\ Part("solar_benefit", e.of) \notin AnswerParts
          /\ Part("benefits_header", "") \in AnswerParts
    /\ e.who = "general" => Part("solar_general", e.of) \notin AnswerParts

C10_CacheHitReturnsStoredUnchanged ==
    (req # None /\ req.hit) =>
        /\ req.result = req.stored_before
        /\ req.stored_after = req.stored_before

---------------------------------------------------------------------------
(* Strings.  Where a conversion of text matters a Python str is the        *)
(* sequence of its characters, and an Optional[str] is None or Str(chars). *)

Str(chars) == [s |-> chars]

\* str.lower() on the letters the model uses
LowerChar(c) ==
    CASE c = "A" -> "a" [] c = "K" -> "k" [] c = "N" -> "n" [] c = "S" -> "s"
      [] c = "V" -> "v" [] c = "M" -> "m" [] c = "I" -> "i" [] c = "L" -> "l"
      [] c = "G" -> "g" [] c = "E" -> "e" [] c = "O" -> "o" [] c = "D" -> "d"
      [] c = "T" -> "t" [] c = "P" -> "p" [] c = "H" -> "h"
      [] OTHER -> c
Lower(s) == [i \in DOMAIN s |-> LowerChar(s[i])]

\* str.strip(chars): leading and trailing characters of the set removed
RECURSIVE LStrip(_, _)
LStrip(s, cs) == IF s # <<>> /\ Head(s) \in cs THEN LStrip(Tail(s), cs) ELSE s
RECURSIVE RStrip(_, _)
RStrip(s, cs) ==
    IF s # <<>> /\ s[Len(s)] \in cs THEN RStrip(SubSeq(s, 1, Len(s) - 1), cs) ELSE s
StripChars(s, cs) == RStrip(LStrip(s, cs), cs)
\* str.strip()
Strip(s) == StripChars(s, {" "})

---------------------------------------------------------------------------
(* SingleChatbot.answer and its response cache (single_chatbot_app.py) *)

\* single_chatbot_app.ResponseCache._key, without the md5 on top (taken as
\* collision free)
SingleKey(question, context) ==
    StripChars(Lower(Strip(question)) \o <<"|">> \o Lower(Strip(context)), {"|"})

\* the question texts, trimesters, regions and seasons of SpecSingleAnswer
RawQuestions ==
    { <<"K", "i", "w", "i">>, <<" ", "k", "i", "w", "i", " ">>, <<" ">> }
AnswerTrimesters == {1, 2}
AnswerRegions == {None, Str(<<"N", "o", "r", "t", "h">>)}
AnswerSeasons == {None, Str(<<"s", "u", "m", "m", "e", "r">>)}

\* one call SingleChatbot.answer(question, trimester, region, season); of
\* the payload only the fields that name the request are kept
SingleAnswerCall ==
    \E question \in RawQuestions, trimester \in AnswerTrimesters,
       region \in AnswerRegions, season \in AnswerSeasons :
        LET q == Strip(question)
            key == SingleKey(q, <<>>)
            g == SingleGet(sstore, key, clock)
            payload == [question |-> q, trimester |-> trimester,
                        region |-> region, season |-> season, source |-> "dataset"]
        IN /\ cret' = [cls |-> "answer", question |-> question, trimester |-> trimester,
                       region |-> region, season |-> season, key |-> key, t |-> clock,
                       hit |-> q # <<>> /\ g.val # None,
                       val |-> IF q = <<>> THEN [error |-> "Question is required"]
                               ELSE IF g.val # None THEN g.val
                               ELSE payload]
           /\ sstore' = IF q = <<>> THEN sstore
                        ELSE IF g.val # None THEN g.store
                        ELSE SingleSet(g.store, key, payload, clock)
           /\ UNCHANGED <<clock, rlVars, ecache, chatVars, loaderVars>>

NextSingleAnswer == TickCache \/ SingleAnswerCall

SpecSingleAnswer == InitCache /\ [][NextSingleAnswer]_vars

\* C11: an answer cached for one trimester, region or season is never returned
\* as a cache hit to a request with the same question and another trimester,
\* region or season.
C11_HitOnlyForSameContext ==
    (cret # None /\ cret.cls = "answer" /\ cret.hit) =>
        /\ cret.val.trimester = cret.trimester
        /\ cret.val.region = cret.region
        /\ cret.val.season = cret.season

---------------------------------------------------------------------------
(* UnifiedDatasetLoader: the preference filter.  The class body defines     *)
(* get_meals_by_preference and its helpers twice; the later definitions     *)
(* (from line 765 on) are the ones the class ends up with.                  *)

\* the characters of the texts the filter model uses
Text(w) ==
    CASE w = "north" -> <<"n", "o", "r", "t", "h">>
      [] w = "North" -> <<"N", "o", "r", "t", "h">>
      [] w = "south" -> <<"s", "o", "u", "t", "h">>
      [] w = "South" -> <<"S", "o", "u", "t", "h">>
      [] w = "veg" -> <<"v", "e", "g">>
      [] w = "non" -> <<"n", "o", "n">>
      [] w = "nonveg" -> <<"n", "o", "n", "v", "e", "g">>
      [] w = "vegan" -> <<"v", "e", "g", "a", "n">>
      [] w = "Vegan" -> <<"V", "e", "g", "a", "n">>
      [] w = "all" -> <<"a", "l", "l">>
      [] w = "All" -> <<"A", "l", "l">>
      [] w = "ALL" -> <<"A", "L", "L">>
      [] w = "any" -> <<"a", "n", "y">>
      [] w = "Any" -> <<"A", "n", "y">>
      [] w = "general" -> <<"g", "e", "n", "e", "r", "a", "l">>
      [] w = "General" -> <<"G", "e", "n", "e", "r", "a", "l">>
      [] w = "mixed" -> <<"m", "i", "x", "e", "d">>
      [] w = "Mixed" -> <<"M", "i", "x", "e", "d">>
      [] w = "none" -> <<"n", "o", "n", "e">>
      [] w = "None" -> <<"N", "o", "n", "e">>
      [] w = "summer" -> <<"s", "u", "m", "m", "e", "r">>
      [] w = "winter" -> <<"w", "i", "n", "t", "e", "r">>
      [] w = "monsoon" -> <<"m", "o", "n", "s", "o", "o", "n">>
      [] w = "rain" -> <<"r", "a", "i", "n">>
      [] w = "diabetes" -> <<"d", "i", "a", "b", "e", "t", "e", "s">>
      [] w = "gestational" -> <<"g", "e", "s", "t", "a", "t", "i", "o", "n", "a", "l">>
      [] w = "gestational_diabetes" ->
            <<"g", "e", "s", "t", "a", "t", "i", "o", "n", "a", "l", "_",
              "d", "i", "a", "b", "e", "t", "e", "s">>
      [] w = "snack" -> <<"s", "n", "a", "c", "k">>
      [] w = "snacks" -> <<"s", "n", "a", "c", "k", "s">>
      [] w = "lunch" -> <<"l", "u", "n", "c", "h">>
      [] w = "Lunch" -> <<"L", "u", "n", "c", "h">>
      [] w = "All trimesters" ->
            <<"A", "l", "l", " ", "t", "r", "i", "m", "e", "s", "t", "e", "r", "s">>
      [] w = "Trimester 1" ->
            <<"T", "r", "i", "m", "e", "s", "t", "e", "r", " ", "1">>
      [] w = "Trimester 2" ->
            <<"T", "r", "i", "m", "e", "s", "t", "e", "r", " ", "2">>
      [] w = "_" -> <<"_">>

\* a str of the model, and the same with surrounding whitespace
Txt(w) == Str(Text(w))
Padded(w) == Str(<<" ">> \o Text(w) \o <<" ">>)

\* bool(x) of an Optional[str]
Truthy(x) == x # None /\ x.s # <<>>

\* _normalize_region
NormalizeRegion(region) ==
    IF ~Truthy(region) THEN None
    ELSE LET value == Lower(Strip(region.s)) IN
         IF Contains(value, Text("north")) THEN Txt("north")
         ELSE IF Contains(value, Text("south")) THEN Txt("south")
         ELSE IF value \notin {Text("all"), Text("any")} THEN Str(value)
         ELSE None

\* _normalize_diet
NormalizeDiet(diet) ==
    IF ~Truthy(diet) THEN None
    ELSE LET value == Lower(Strip(diet.s)) IN
         IF Contains(value, Text("veg")) /\ ~Contains(value, Text("non")) THEN Txt("veg")
         ELSE IF Contains(value, Text("non")) THEN Txt("nonveg")
         ELSE IF Contains(value, Text("vegan")) THEN Txt("vegan")
         ELSE IF value \notin {Text("mixed"), Text("all"), Text("any")} THEN Str(value)
         ELSE None

\* _normalize_season
NormalizeSeason(season) ==
    IF ~Truthy(season) THEN None
    ELSE LET value == Lower(Strip(season.s)) IN
         IF Contains(value, Text("summer")) THEN Txt("summer")
         ELSE IF Contains(value, Text("winter")) THEN Txt("winter")
         ELSE IF Contains(value, Text("monsoon")) \/ Contains(value, Text("rain"))
         THEN Txt("monsoon")
         ELSE IF value \notin {Text("all"), Text("any")} THEN Str(value)
         ELSE None

\* _normalize_condition
NormalizeCondition(condition) ==
    IF ~Truthy(condition) THEN None
    ELSE LET value == Lower(Strip(condition.s)) IN
         IF Contains(value, Text("gestational")) THEN Txt("gestational_diabetes")
         ELSE IF Contains(value, Text("diabetes")) THEN Txt("diabetes")
         ELSE IF value \notin {Text("general"), Text("none")} THEN Str(value)
         ELSE None

\* _normalize_meal_type
NormalizeMealType(meal_type) ==
    IF ~Truthy(meal_type) THEN None
    ELSE LET value == Lower(Strip(meal_type.s)) IN
         IF value \in {Text("snack"), Text("snacks")} THEN Txt("snack")
         ELSE Str(value)

\* a row of self.meals: the provenance tags _load_all_datasets adds
\* (source_season and source_condition only for files that have them) and the
\* values of its trimester and meal-type columns; None is a key the row lacks
Meal(id, region, diet, season, condition, trimester, meal_type) ==
    [id |-> id, source_region |-> region, source_diet |-> diet,
     source_season |-> season, source_condition |-> condition,
     trimester |-> trimester, meal_type |-> meal_type]

NorthVegMeal == Meal("north_veg", Txt("North"), Txt("veg"), None, None,
                     Txt("Trimester 1"), Txt("Lunch"))
SouthNonvegMeal == Meal("south_nonveg", Txt("South"), Txt("nonveg"), None, None,
                        None, None)
SummerMeal == Meal("summer", Txt("All"), Txt("all"), Txt("summer"), None,
                   Txt("Trimester 2"), None)
DiabetesMeal == Meal("diabetes", Txt("All"), Txt("all"), None, Txt("diabetes"),
                     Txt("All trimesters"), None)

\* self.meals after _load_all_datasets: with only the regional folder
\* present, and with the seasonal and diabetes folders as well
Datasets ==
    { <<NorthVegMeal, SouthNonvegMeal>>,
      <<NorthVegMeal, SouthNonvegMeal, SummerMeal, DiabetesMeal>> }

\* _preference_cache_max_size
preference_cache_max_size == 2

\* the arguments of one filter call; trimester NoTrimester is None
Args(region, diet, trimester, season, condition, meal_type) ==
    [region |-> region, diet |-> diet, trimester |-> trimester,
     season |-> season, condition |-> condition, meal_type |-> meal_type]

\* str(trimester)
Digit(n) == CASE n = 1 -> <<"1">> [] n = 2 -> <<"2">> [] n = 3 -> <<"3">>
              [] OTHER -> Text("None")
\* f"{x}" of an Optional[str]
Fmt(x) == IF x = None THEN Text("None") ELSE x.s

\* cache_key = f"{region}_{diet_type}_{trimester}_{season}_{condition}_{meal_type}"
PrefKey(a) ==
    Fmt(a.region) \o Text("_") \o Fmt(a.diet) \o Text("_") \o Digit(a.trimester)
    \o Text("_") \o Fmt(a.season) \o Text("_") \o Fmt(a.condition)
    \o Text("_") \o Fmt(a.meal_type)

\* the check of one provenance tag against a normalized filter value; the
\* 'all' tag passes where all_passes (region, diet, season)
TagAccepted(normalized, tag, all_passes) ==
    IF ~Truthy(normalized) THEN TRUE
    ELSE IF ~Truthy(tag) THEN TRUE
    ELSE \/ Lower(tag.s) = normalized.s
         \/ all_passes /\ Lower(tag.s) = Text("all")

\* the meal-type check
MealTypeAccepted(normalized, meal) ==
    IF ~Truthy(normalized) THEN TRUE
    ELSE IF meal.meal_type = None THEN TRUE
    ELSE Lower(meal.meal_type.s) = normalized.s

\* the trimester check
TrimesterAccepted(trimester, meal) ==
    IF trimester = NoTrimester THEN TRUE
    ELSE IF ~Truthy(meal.trimester) THEN TRUE
    ELSE Contains(meal.trimester.s, Digit(trimester))

\* `match` at the end of the loop body of _search_with_filters
MealMatches(a, meal) ==
    /\ TagAccepted(NormalizeRegion(a.region), meal.source_region, TRUE)
    /\ TagAccepted(NormalizeDiet(a.diet), meal.source_diet, TRUE)
    /\ MealTypeAccepted(NormalizeMealType(a.meal_type), meal)
    /\ TagAccepted(NormalizeCondition(a.condition), meal.source_condition, FALSE)
    /\ TagAccepted(NormalizeSeason(a.season), meal.source_season, TRUE)
    /\ TrimesterAccepted(a.trimester, meal)

\* the list _search_with_filters computes on a cache miss
Filtered(ms, a) == SelectSeq(ms, LAMBDA meal : MealMatches(a, meal))

PrefCacheStoreAlways(cache, key, results) == DictPut(cache, key, results)

\* if len(self._preference_cache) < self._preference_cache_max_size: store
PrefCacheStore(cache, key, results) ==
    IF Cardinality(DOMAIN cache) < preference_cache_max_size
    THEN DictPut(cache, key, results)
    ELSE cache

\* _search_with_filters: what it returns, the cache it leaves, and whether
\* the key was found in the cache
SearchWithFilters(ms, cache, a) ==
    IF PrefKey(a) \in DOMAIN cache
    THEN [results |-> cache[PrefKey(a)], cache |-> cache, args |-> a, hit |-> TRUE,
          stored |-> FALSE]
    ELSE [results |-> Filtered(ms, a),
          cache |-> PrefCacheStore(cache, PrefKey(a), Filtered(ms, a)),
          args |-> a, hit |-> FALSE,
          stored |-> PrefKey(a) \in DOMAIN PrefCacheStore(cache, PrefKey(a), Filtered(ms, a))]

\* the filter calls get_meals_by_preference makes, in order, each with the
\* condition under which it is made and the line printed when it finds
\* records and log_relaxation is set; the last one is made unconditionally and
\* its result is returned whatever it is
Relaxations(a) ==
    << [made |-> TRUE, last |-> FALSE, line |-> "", args |-> a],
       [made |-> Truthy(a.season), last |-> FALSE,
        line |-> "Relaxed filter: season",
        args |-> Args(a.region, a.diet, a.trimester, None, a.condition, a.meal_type)],
       [made |-> Truthy(a.condition), last |-> FALSE,
        line |-> IF Truthy(a.season) THEN "Relaxed filters: season, condition"
                 ELSE "Relaxed filters: condition",
        args |-> Args(a.region, a.diet, a.trimester, None, None, a.meal_type)],
       [made |-> a.trimester # NoTrimester, last |-> FALSE,
        line |-> "Relaxed filters: season, condition, trimester",
        args |-> Args(a.region, a.diet, NoTrimester, None, None, a.meal_type)],
       [made |-> Truthy(a.meal_type), last |-> FALSE,
        line |-> "Relaxed filters: season, condition, trimester, meal_type",
        args |-> Args(a.region, a.diet, NoTrimester, None, None, None)],
       [made |-> TRUE, last |-> TRUE,
        line |-> "Using only region and diet_type filters",
        args |-> Args(a.region, a.diet, NoTrimester, None, None, None)] >>

\* the record of one filter call
Searched(found) ==
    [args |-> found.args, hit |-> found.hit, stored |-> found.stored,
     results |-> found.results]

RECURSIVE Relax(_, _, _, _, _)
RECURSIVE AfterSearch(_, _, _, _, _)
\* the body of get_meals_by_preference from the filter call `steps` starts
\* with: the list returned, the lines printed, the cache left and the filter
\* calls made
Relax(steps, ms, cache, searches, log_relaxation) ==
    IF ~Head(steps).made THEN Relax(Tail(steps), ms, cache, searches, log_relaxation)
    ELSE AfterSearch(steps, ms, SearchWithFilters(ms, cache, Head(steps).args),
                     searches, log_relaxation)

\* `if results: ... return results` after a filter call
AfterSearch(steps, ms, found, searches, log_relaxation) ==
    IF found.results # <<>> \/ Head(steps).last
    THEN [ret |-> found.results,
          printed |-> IF log_relaxation /\ found.results # <<>> /\ Head(steps).line # ""
                      THEN <<Head(steps).line>> ELSE <<>>,
          cache |-> found.cache,
          searches |-> Append(searches, Searched(found))]
    ELSE Relax(Tail(steps), ms, found.cache, Append(searches, Searched(found)),
               log_relaxation)

\* get_meals_by_preference: `ret` is the value returned
GetMealsByPreference(ms, cache, a, log_relaxation) ==
    Relax(Relaxations(a), ms, cache, <<>>, log_relaxation)

\* the calls made on the loader
Requests ==
    { Args(None, Txt("veg"), 1, None, None, None),
      Args(Txt("None"), Txt("veg"), 1, None, None, None),
      Args(Txt("None"), Txt("veg"), NoTrimester, None, None, None),
      Args(Txt("North"), Txt("veg"), 2, Txt("monsoon"), None, None),
      Args(Txt("North"), Txt("veg"), 1, Txt("summer"), None, None),
      Args(Txt("North"), Txt("veg"), NoTrimester, None, None, None),
      Args(Txt("North"), Txt("nonveg"), 1, Txt("summer"), Txt("diabetes"), Txt("lunch")),
      Args(Txt("North"), Txt("nonveg"), NoTrimester, None, None, None),
      Args(Txt("South"), Txt("veg"), 3, None, Txt("diabetes"), None),
      Args(None, None, 1, None, None, None),
      Args(None, None, NoTrimester, None, Txt("all"), None) }

InitMeals ==
    /\ meals \in Datasets
    /\ pref_cache = <<>>
    /\ call = None
    /\ loader_food_index = <<>>
    /\ loader_keyword_index = <<>> /\ loader_dos_donts_index = <<>>
    /\ guidance = <<>> /\ loading_stats = None /\ threads = <<>>
    /\ clock = 0 /\ recent_calls = <<>> /\ rl_log = <<>>
    /\ ecache = <<>> /\ sstore = <<>> /\ cret = None
    /\ response_cache = <<>> /\ solar_available = TRUE /\ req = None

\* one call of get_meals_by_preference
GetMeals ==
    \E a \in Requests :
        \E log_relaxation \in BOOLEAN :
        \E r \in {GetMealsByPreference(meals, pref_cache, a, log_relaxation)} :
            /\ pref_cache' = r.cache
            /\ call' = [op |-> "get_meals_by_preference", args |-> a,
                        log_relaxation |-> log_relaxation,
                        ret |-> r.ret, printed |-> r.printed,
                        searches |-> r.searches, cache_before |-> pref_cache]
            /\ UNCHANGED <<meals, loader_food_index, clock, chatVars, rlVars, cacheVars,
                   restVars>>

NextMeals == GetMeals
SpecMeals == InitMeals /\ [][NextMeals]_vars

----------------------------------------------------------------------------
(* Properties of get_meals_by_preference *)

\* the records of a list
Records(list) == {list[i] : i \in DOMAIN list}

\* the region-and-diet-only arguments of a call
PinnedOnly(a) == Args(a.region, a.diet, NoTrimester, None, None, None)

\* C12: every record a call of get_meals_by_preference returns is also returned
\* by the call with the same region and diet and no other filter.
C12_ResultWithinPinnedOnly ==
    call # None =>
        Records(call.ret) \subseteq
            Records(GetMealsByPreference(meals, pref_cache, PinnedOnly(call.args), FALSE).ret)

\* the optional filter dimensions of get_meals_by_preference
OptionalDimensions == {"trimester", "season", "condition", "meal_type"}

\* the fixed sequence of relaxation levels: all constraints, then without
\* season, condition, trimester and meal type, cumulatively
Levels(a) ==
    << a,
       Args(a.region, a.diet, a.trimester, None, a.condition, a.meal_type),
       Args(a.region, a.diet, a.trimester, None, None, a.meal_type),
       Args(a.region, a.diet, NoTrimester, None, None, a.meal_type),
       Args(a.region, a.diet, NoTrimester, None, None, None) >>

RECURSIVE FirstNonEmpty(_, _)
\* the matches of the first level that has any, the empty list if none has
FirstNonEmpty(ms, levels) ==
    IF levels = <<>> THEN <<>>
    ELSE IF Filtered(ms, Head(levels)) # <<>> THEN Filtered(ms, Head(levels))
    ELSE FirstNonEmpty(ms, Tail(levels))

\* the filter calls of a call after its first
Retries(c) == Len(c.searches) - 1

\* C13, first part: the list returned is that of the first non-empty level
C13_ReturnsFirstNonEmptyLevel ==
    call # None => call.ret = FirstNonEmpty(meals, Levels(call.args))

\* C13, second part: no more retries than optional dimensions
C13_RetriesWithinOptionalDimensions ==
    call # None => Retries(call) <= Cardinality(OptionalDimensions)

\* C13, third part: empty exactly when region and diet alone match nothing
C13_EmptyIffPinnedOnlyEmpty ==
    call # None => (call.ret = <<>> <=> Filtered(meals, PinnedOnly(call.args)) = <<>>)

\* C13: a call returns the matches of the first non-empty level of the fixed
\* sequence (all constraints; without season; without season and condition;
\* without season, condition and trimester; region and diet only), makes at most
\* as many retries as there are optional dimensions, and returns the empty list
\* exactly when no record matches region and diet alone.
C13_ProgressiveRelaxation ==
    /\ C13_ReturnsFirstNonEmptyLevel
    /\ C13_RetriesWithinOptionalDimensions
    /\ C13_EmptyIffPinnedOnlyEmpty

\* the arguments of a call with the season left out
WithoutSeason(a) == Args(a.region, a.diet, a.trimester, None, a.condition, a.meal_type)

\* no record matches all of a call's filters, and some record does once the
\* season is ignored
SeasonRelaxed(c) ==
    /\ Truthy(c.args.season)
    /\ Filtered(meals, c.args) = <<>>
    /\ Filtered(meals, WithoutSeason(c.args)) # <<>>

\* C14: when nothing matches with the season and something does without it,
\* the call returns those records and its return value shows the relaxation:
\* it is not the value the same call returns when no season is asked for.
C14_SeasonRelaxationReturned ==
    (call # None /\ SeasonRelaxed(call)) =>
        /\ Records(call.ret) = Records(Filtered(meals, WithoutSeason(call.args)))
        /\ call.ret # GetMealsByPreference(meals, call.cache_before,
                                           WithoutSeason(call.args),
                                           call.log_relaxation).ret

\* the cache held preference_cache_max_size entries when the call began
CacheWasFull(c) == Cardinality(DOMAIN c.cache_before) = preference_cache_max_size

\* C15: the preference cache never holds more than _preference_cache_max_size
\* entries and never loses or changes one; a call made when it is full leaves
\* it as it was, and every tuple it does not find there is computed from the
\* records and returned without being stored.
C15_PreferenceCacheBounded ==
    /\ Cardinality(DOMAIN pref_cache) <= preference_cache_max_size
    /\ call # None =>
        /\ \A k \in DOMAIN call.cache_before :
              k \in DOMAIN pref_cache /\ pref_cache[k] = call.cache_before[k]
        /\ CacheWasFull(call) =>
              /\ pref_cache = call.cache_before
              /\ \A i \in DOMAIN call.searches :
                    ~call.searches[i].hit =>
                        /\ ~call.searches[i].stored
                        /\ call.searches[i].results =
                               Filtered(meals, call.searches[i].args)
              /\ call.ret = call.searches[Len(call.searches)].results

C15_Witness ==
    /\ call # None
    /\ CacheWasFull(call)
    /\ call.ret # <<>>
    /\ \E i \in DOMAIN call.searches : ~call.searches[i].hit

\* a dimension on which the filter is unset, or the record's tag is the
\* canonical filter value or the 'all' marker
DimensionAccepted(normalized, tag) ==
    \/ ~Truthy(normalized)
    \/ /\ Truthy(tag)
       /\ Lower(tag.s) = normalized.s \/ Lower(tag.s) = Text("all")

\* acceptance on region, diet, season and condition, with the code's own
\* checks of meal type and trimester
AcceptedOnEveryDimension(a, meal) ==
    /\ DimensionAccepted(NormalizeRegion(a.region), meal.source_region)
    /\ DimensionAccepted(NormalizeDiet(a.diet), meal.source_diet)
    /\ DimensionAccepted(NormalizeSeason(a.season), meal.source_season)
    /\ DimensionAccepted(NormalizeCondition(a.condition), meal.source_condition)
    /\ MealTypeAccepted(NormalizeMealType(a.meal_type), meal)
    /\ TrimesterAccepted(a.trimester, meal)

\* C16: a filter call that computes its list returns exactly the records
\* accepted on every dimension, where region, diet, season and condition accept
\* a record when the filter is unset, the record's tag equals the canonical
\* value, or the tag is 'all'.
C16_ReturnedIffAcceptedOnEveryDimension ==
    call # None =>
        \A i \in DOMAIN call.searches :
            ~call.searches[i].hit =>
                Records(call.searches[i].results) =
                    {meal \in Records(meals) :
                        AcceptedOnEveryDimension(call.searches[i].args, meal)}

\* the arguments of a call with the trimester left out
WithoutTrimester(a) ==
    Args(a.region, a.diet, NoTrimester, a.season, a.condition, a.meal_type)

\* a trimester column holding the all-trimesters value, or else naming the
\* trimester by its decimal number
TrimesterTolerant(trimester, meal) ==
    \/ Contains(Lower(meal.trimester.s), Text("all"))
    \/ Contains(meal.trimester.s, Digit(trimester))

\* C17: among the records with a trimester column that pass every other filter,
\* a filter call with a trimester returns exactly those whose column holds
\* 'All trimesters' / 'All' or contains the trimester's decimal number.
C17_TrimesterToleratesAll ==
    call # None =>
        \A i \in DOMAIN call.searches :
            (~call.searches[i].hit /\ call.searches[i].args.trimester # NoTrimester) =>
                \A meal \in Records(meals) :
                    (/\ Truthy(meal.trimester)
                     /\ MealMatches(WithoutTrimester(call.searches[i].args), meal)) =>
                        (meal \in Records(call.searches[i].results)
                            <=> TrimesterTolerant(call.searches[i].args.trimester, meal))

----------------------------------------------------------------------------
(* The normalizers of the filter values, called on their own *)

\* the filter values passed: canonical names, the generic markers and other
\* vocabulary, in several letter cases
FilterWords ==
    { "north", "North", "south", "South", "veg", "nonveg", "vegan", "Vegan",
      "all", "All", "ALL", "any", "Any", "general", "General", "mixed", "Mixed",
      "none", "None", "summer", "winter", "monsoon", "rain", "diabetes",
      "gestational", "gestational_diabetes", "snack", "snacks", "lunch", "Lunch" }

\* each value bare and with surrounding whitespace, and the absent value
FilterValues == {None, Str(<<>>)} \cup {Txt(w) : w \in FilterWords}
                    \cup {Padded(w) : w \in FilterWords}

InitNormalize ==
    /\ call = None
    /\ loader_food_index = <<>>
    /\ loader_keyword_index = <<>> /\ loader_dos_donts_index = <<>>
    /\ guidance = <<>> /\ loading_stats = None /\ threads = <<>>
    /\ meals = <<>> /\ pref_cache = <<>>
    /\ clock = 0 /\ recent_calls = <<>> /\ rl_log = <<>>
    /\ ecache = <<>> /\ sstore = <<>> /\ cret = None
    /\ response_cache = <<>> /\ solar_available = TRUE /\ req = None

\* one call of each normalizer
NormalizeRegionCall ==
    \E x \in FilterValues :
        /\ call' = [op |-> "_normalize_region", arg |-> x, out |-> NormalizeRegion(x)]
        /\ UNCHANGED <<meals, pref_cache, loader_food_index, clock, chatVars,
                       rlVars, cacheVars,
                   restVars>>

NormalizeDietCall ==
    \E x \in FilterValues :
        /\ call' = [op |-> "_normalize_diet", arg |-> x, out |-> NormalizeDiet(x)]
        /\ UNCHANGED <<meals, pref_cache, loader_food_index, clock, chatVars,
                       rlVars, cacheVars,
                   restVars>>

NormalizeSeasonCall ==
    \E x \in FilterValues :
        /\ call' = [op |-> "_normalize_season", arg |-> x, out |-> NormalizeSeason(x)]
        /\ UNCHANGED <<meals, pref_cache, loader_food_index, clock, chatVars,
                       rlVars, cacheVars,
                   restVars>>

NormalizeConditionCall ==
    \E x \in FilterValues :
        /\ call' = [op |-> "_normalize_condition", arg |-> x, out |-> NormalizeCondition(x)]
        /\ UNCHANGED <<meals, pref_cache, loader_food_index, clock, chatVars,
                       rlVars, cacheVars,
                   restVars>>

NormalizeMealTypeCall ==
    \E x \in FilterValues :
        /\ call' = [op |-> "_normalize_meal_type", arg |-> x, out |-> NormalizeMealType(x)]
        /\ UNCHANGED <<meals, pref_cache, loader_food_index, clock, chatVars,
                       rlVars, cacheVars,
                   restVars>>

NextNormalize ==
    \/ NormalizeRegionCall
    \/ NormalizeDietCall
    \/ NormalizeSeasonCall
    \/ NormalizeConditionCall
    \/ NormalizeMealTypeCall
SpecNormalize == InitNormalize /\ [][NextNormalize]_vars

\* value.strip().lower() of a call's argument
Canonical(c) == Lower(Strip(c.arg.s))

\* C18: _normalize_diet maps a value containing 'vegan' to 'vegan', any other
\* value containing 'veg' but not 'non' to 'veg', and any other value containing
\* 'non' to 'nonveg'.
C18_DietVocabulary ==
    (call # None /\ call.op = "_normalize_diet" /\ Truthy(call.arg)) =>
        /\ Contains(Canonical(call), Text("vegan")) => call.out = Txt("vegan")
        /\ (/\ Contains(Canonical(call), Text("veg"))
            /\ ~Contains(Canonical(call), Text("non"))
            /\ ~Contains(Canonical(call), Text("vegan"))) => call.out = Txt("veg")
        /\ (/\ Contains(Canonical(call), Text("non"))
            /\ ~Contains(Canonical(call), Text("vegan"))) => call.out = Txt("nonveg")

\* the generic marker values
GenericMarkers == {Text("all"), Text("any"), Text("general"), Text("mixed"), Text("none")}

\* C19: the region, diet, season and condition normalizers map every generic
\* marker ('all', 'any', 'general', 'mixed', 'none', in any letter case and with
\* surrounding whitespace) to unset.
C19_GenericMarkersUnset ==
    (/\ call # None
     /\ call.op \in {"_normalize_region", "_normalize_diet", "_normalize_season",
                     "_normalize_condition"}
     /\ Truthy(call.arg)
     /\ Canonical(call) \in GenericMarkers) => call.out = None

----------------------------------------------------------------------------
(* _build_fast_indexes and search_food_exact *)

\* the columns _build_fast_indexes reads food names from, in its order
NameColumns == <<"food", "food_item", "meal", "dish", "item", "dish_name",
                 "meal_name", "recipe">>

\* the columns _build_fast_indexes reads guidance items from, in its order
GuidanceColumns == <<"item", "food", "food_item", "do", "dont">>

\* rows of the meal files: `cols` maps the name columns a row has to its cells
NamedRows ==
    { [id |-> "r1", cols |-> [c \in {"food"} |-> <<"K", "i", "w", "i">>]],
      [id |-> "r2", cols |-> [c \in {"dish"} |-> <<" ", "k", "i", "w", "i", " ">>]],
      [id |-> "r3", cols |-> [c \in {"food", "meal"} |->
                                 IF c = "food" THEN <<"D", "a", "l">>
                                 ELSE <<"L", "u", "n", "c", "h">>]],
      [id |-> "r4", cols |-> [c \in {"meal"} |-> <<"l", "u", "n", "c", "h">>]],
      [id |-> "r5", cols |-> [c \in {"food", "item"} |->
                                 IF c = "food" THEN <<>> ELSE <<" ">>]],
      [id |-> "r6", cols |-> [c \in {"food", "dish"} |->
                                 IF c = "food" THEN <<"k", "i", "w", "i", "s">>
                                 ELSE <<"k", "i", "w", "i", "s", " ", "d", "a", "l">>]] }

\* rows of the guidance files
GuidanceRows ==
    { [id |-> "g1", cols |-> [c \in {"item"} |-> <<"P", "a", "p", "a", "y", "a">>]],
      [id |-> "g2", cols |-> [c \in {"food", "dont"} |->
                                 IF c = "food" THEN <<"p", "a", "p", "a", "d">>
                                 ELSE <<"k", "i", "w", "i">>]] }

\* the queries passed to search_food_exact
Queries ==
    { <<"k", "i", "w", "i">>, <<" ", "K", "I", "W", "I">>, <<"D", "A", "L", " ">>,
      <<"d", "a", "l">>, <<"L", "u", "n", "c", "h">>, <<"i", "d", "l", "i">>, <<" ">> }

\* the queries passed to the fuzzy searches, and the thresholds in hundredths
FuzzyQueries ==
    { <<"k", "i", "w", "i", "z">>, <<" ", "K", "i", "w", "i">>,
      <<"p", "a", "p", "a", "y">> }
Thresholds == {25, 75}

\* number of rows loaded before the index is built
MaxMeals == 3

\* str(meal[col_name]).strip().lower()
FoodName(cell) == Lower(Strip(cell))

\* a dict in insertion order: a sequence of [key, val] with distinct keys
HasKey(d, k) == \E i \in DOMAIN d : d[i].key = k
Lookup(d, k) == d[CHOOSE i \in DOMAIN d : d[i].key = k].val
\* d[k] = v: an existing key keeps its place
OrderedPut(d, k, v) ==
    IF HasKey(d, k)
    THEN [i \in DOMAIN d |-> IF d[i].key = k THEN [key |-> k, val |-> v] ELSE d[i]]
    ELSE Append(d, [key |-> k, val |-> v])

IndexNameFirstWins(index, food_name, meal) ==
    IF food_name # <<>> /\ ~HasKey(index, food_name)
    THEN OrderedPut(index, food_name, meal) ELSE index

\* if food_name: self.food_index[food_name] = meal
IndexName(index, food_name, meal) ==
    IF food_name # <<>> THEN OrderedPut(index, food_name, meal) ELSE index

RECURSIVE IndexColumns(_, _, _)
\* the inner loop of _build_fast_indexes over the name columns `cols` of one
\* row, for food_index and for dos_donts_index
IndexColumns(index, meal, cols) ==
    IF cols = <<>> THEN index
    ELSE IF Head(cols) \in DOMAIN meal.cols /\ meal.cols[Head(cols)] # <<>>
         THEN IndexColumns(IndexName(index, FoodName(meal.cols[Head(cols)]), meal),
                           meal, Tail(cols))
         ELSE IndexColumns(index, meal, Tail(cols))

RECURSIVE IndexMeals(_, _, _)
\* the outer loops of _build_fast_indexes: the index after the rows `ms`
IndexMeals(index, ms, cols) ==
    IF ms = <<>> THEN index
    ELSE IndexMeals(IndexColumns(index, Head(ms), cols), Tail(ms), cols)

RECURSIVE Split(_)
\* str.split()
Split(s) ==
    LET t == LStrip(s, {" "})
        n == IF \E i \in DOMAIN t : t[i] = " "
             THEN (CHOOSE i \in DOMAIN t : t[i] = " " /\ \A j \in 1..(i - 1) : t[j] # " ") - 1
             ELSE Len(t)
    IN IF t = <<>> THEN <<>>
       ELSE <<SubSeq(t, 1, n)>> \o Split(SubSeq(t, n + 1, Len(t)))

RECURSIVE KeywordWords(_, _, _)
\* for word in food_name.split(): if len(word) > 2:
\*     self.keyword_index[word].append(meal)
KeywordWords(index, words, meal) ==
    IF words = <<>> THEN index
    ELSE IF Len(Head(words)) > 2
         THEN KeywordWords(
                  DictPut(index, Head(words),
                          Append(IF Head(words) \in DOMAIN index
                                 THEN index[Head(words)] ELSE <<>>, meal)),
                  Tail(words), meal)
         ELSE KeywordWords(index, Tail(words), meal)

RECURSIVE KeywordColumns(_, _, _)
\* the inner loop of _build_fast_indexes, for keyword_index
KeywordColumns(index, meal, cols) ==
    IF cols = <<>> THEN index
    ELSE IF Head(cols) \in DOMAIN meal.cols /\ meal.cols[Head(cols)] # <<>>
         THEN KeywordColumns(
                  KeywordWords(index, Split(FoodName(meal.cols[Head(cols)])), meal),
                  meal, Tail(cols))
         ELSE KeywordColumns(index, meal, Tail(cols))

RECURSIVE KeywordMeals(_, _)
\* the loop of _build_fast_indexes over self.meals, for keyword_index
KeywordMeals(index, ms) ==
    IF ms = <<>> THEN index
    ELSE KeywordMeals(KeywordColumns(index, Head(ms), NameColumns), Tail(ms))

\* search_food_exact
SearchFoodExact(index, query) ==
    IF HasKey(index, FoodName(query)) THEN Lookup(index, FoodName(query)) ELSE None

\* difflib.SequenceMatcher(None, a, b).ratio() >= pct / 100
RatioAtLeast(a, b, pct) ==
    IF Len(a) + Len(b) = 0 THEN 100 >= pct
    ELSE 200 * MatchCount(a, b, 1, Len(a), 1, Len(b)) >= pct * (Len(a) + Len(b))

\* the values of a list of dict entries
Values(entries) == [i \in DOMAIN entries |-> entries[i].val]

FuzzyMatchesAnyKey(index, query_lower, pct) == Take(Values(index), 10)

\* the loop of search_food_fuzzy / search_dos_donts_fuzzy and results[:10]
FuzzyMatches(index, query_lower, pct) ==
    Take(Values(SelectSeq(index, LAMBDA e : RatioAtLeast(query_lower, e.key, pct))), 10)

\* search_food_fuzzy and search_dos_donts_fuzzy on their index
SearchFuzzyIndex(index, query, pct) ==
    IF HasKey(index, FoodName(query)) THEN <<Lookup(index, FoodName(query))>>
    ELSE FuzzyMatches(index, FoodName(query), pct)

InitIndex ==
    /\ meals = <<>>
    /\ loader_food_index = <<>>
    /\ loader_keyword_index = <<>> /\ loader_dos_donts_index = <<>>
    /\ guidance = <<>> /\ loading_stats = None /\ threads = <<>>
    /\ call = None
    /\ pref_cache = <<>>
    /\ clock = 0 /\ recent_calls = <<>> /\ rl_log = <<>>
    /\ ecache = <<>> /\ sstore = <<>> /\ cret = None
    /\ response_cache = <<>> /\ solar_available = TRUE /\ req = None

\* _load_all_datasets appends one row to self.meals
LoadMeal ==
    /\ call = None
    /\ Len(meals) < MaxMeals
    /\ \E row \in NamedRows : meals' = Append(meals, row)
    /\ UNCHANGED <<loader_food_index, call, pref_cache, clock, chatVars, rlVars,
                   cacheVars, restVars>>

\* _build_fast_indexes: called by __init__ once the rows are loaded, and
\* called once more on a constructed loader
BuildFastIndexes ==
    /\ call = None
    /\ loader_food_index' = IndexMeals(loader_food_index, meals, NameColumns)
    /\ loader_keyword_index' = KeywordMeals(loader_keyword_index, meals)
    /\ loader_dos_donts_index' =
           IndexMeals(loader_dos_donts_index, guidance, GuidanceColumns)
    /\ call' = [op |-> "_build_fast_indexes",
                food_before |-> loader_food_index,
                keyword_before |-> loader_keyword_index,
                dos_donts_before |-> loader_dos_donts_index]
    /\ UNCHANGED <<meals, guidance, loading_stats, threads, pref_cache, clock,
                   chatVars, rlVars, cacheVars>>

\* one call of search_food_exact on the built loader
SearchFoodExactCall ==
    /\ call # None
    /\ \E query \in Queries :
          call' = [op |-> "search_food_exact", query |-> query,
                   ret |-> SearchFoodExact(loader_food_index, query)]
    /\ UNCHANGED <<meals, loader_food_index, pref_cache, clock, chatVars, rlVars,
                   cacheVars, restVars>>

NextIndex ==
    \/ LoadMeal
    \/ BuildFastIndexes
    \/ SearchFoodExactCall
SpecIndex == InitIndex /\ [][NextIndex]_vars

\* the name values of a row: its non-blank cells in the name columns
NameValues(meal) ==
    {meal.cols[c] : c \in {c \in DOMAIN meal.cols : FoodName(meal.cols[c]) # <<>>}}

\* the row carries the name, up to letter case and surrounding whitespace
Carries(meal, food_name) == \E n \in NameValues(meal) : FoodName(n) = food_name

\* positions of the loaded rows that carry the name
Carriers(food_name) == {i \in DOMAIN meals : Carries(meals[i], food_name)}

\* C20: once the index is built, search_food_exact on a name some loaded row
\* carries (in any letter case, with surrounding whitespace) returns a row that
\* carries that name, and of the rows that do, the one loaded last.
C20_ExactLookupFindsLastIngested ==
    (/\ call # None /\ call.op = "search_food_exact"
     /\ Carriers(FoodName(call.query)) # {}) =>
        /\ call.ret # None
        /\ Carries(call.ret, FoodName(call.query))
        /\ \E i \in Carriers(FoodName(call.query)) :
              /\ call.ret = meals[i]
              /\ \A j \in Carriers(FoodName(call.query)) : j <= i

C20_Witness ==
    /\ call # None /\ call.op = "search_food_exact"
    /\ Cardinality({meals[i].id : i \in Carriers(FoodName(call.query))}) > 1
    /\ call.query \notin UNION {NameValues(meals[i]) : i \in DOMAIN meals}
    /\ call.ret # None

----------------------------------------------------------------------------
(* The fuzzy searches and a second index build, on a constructed loader *)

\* number of meal rows of the constructed loader
MaxLoaded == 2

RECURSIVE SeqsUpTo(_, _)
\* the lists of at most n elements of S
SeqsUpTo(S, n) ==
    IF n = 0 THEN {<<>>}
    ELSE SeqsUpTo(S, n - 1) \cup
         {Append(l, x) : l \in {m \in SeqsUpTo(S, n - 1) : Len(m) = n - 1}, x \in S}

\* self.guidance of the constructed loader
GuidanceLoads ==
    {<<>>} \cup {<<g, h>> : <<g, h>> \in {p \in GuidanceRows \X GuidanceRows : p[1] # p[2]}}

\* the loader after __init__: rows loaded, indexes built from them
InitBuilt ==
    /\ meals \in SeqsUpTo(NamedRows, MaxLoaded)
    /\ guidance \in GuidanceLoads
    /\ loader_food_index = IndexMeals(<<>>, meals, NameColumns)
    /\ loader_keyword_index = KeywordMeals(<<>>, meals)
    /\ loader_dos_donts_index = IndexMeals(<<>>, guidance, GuidanceColumns)
    /\ loading_stats = None /\ threads = <<>>
    /\ call = None
    /\ pref_cache = <<>>
    /\ clock = 0 /\ recent_calls = <<>> /\ rl_log = <<>>
    /\ ecache = <<>> /\ sstore = <<>> /\ cret = None
    /\ response_cache = <<>> /\ solar_available = TRUE /\ req = None

\* one call of search_food_fuzzy on the built loader
SearchFoodFuzzyCall ==
    /\ \E query \in FuzzyQueries, threshold \in Thresholds :
          call' = [op |-> "search_food_fuzzy", query |-> query,
                   threshold |-> threshold, index |-> loader_food_index,
                   ret |-> SearchFuzzyIndex(loader_food_index, query, threshold)]
    /\ UNCHANGED <<meals, loader_food_index, pref_cache, clock, chatVars, rlVars,
                   cacheVars, restVars>>

\* one call of search_dos_donts_fuzzy on the built loader
SearchDosDontsFuzzyCall ==
    /\ \E query \in FuzzyQueries, threshold \in Thresholds :
          call' = [op |-> "search_dos_donts_fuzzy", query |-> query,
                   threshold |-> threshold, index |-> loader_dos_donts_index,
                   ret |-> SearchFuzzyIndex(loader_dos_donts_index, query, threshold)]
    /\ UNCHANGED <<meals, loader_food_index, pref_cache, clock, chatVars, rlVars,
                   cacheVars, restVars>>

NextFuzzy ==
    \/ BuildFastIndexes
    \/ SearchFoodFuzzyCall
    \/ SearchDosDontsFuzzyCall
SpecFuzzy == InitBuilt /\ [][NextFuzzy]_vars

\* the last call was one of the two fuzzy searches
FuzzyCall == call # None /\ call.op \in {"search_food_fuzzy", "search_dos_donts_fuzzy"}

\* the similarity of a key to a query, in matched characters and total length
Matched(query_lower, key) ==
    MatchCount(query_lower, key, 1, Len(query_lower), 1, Len(key))

\* the key is the normalized query itself, or its ratio 2 * matched / total
\* to it is at least threshold / 100
CloseEnough(query_lower, key, threshold) ==
    \/ key = query_lower
    \/ 200 * Matched(query_lower, key) >= threshold * (Len(query_lower) + Len(key))

\* C21: every record a fuzzy search returns is indexed under a key whose
\* similarity ratio to the normalized query is at least the threshold, an
\* exact key match counting as similarity 1.
C21_FuzzyResultsAtOrAboveThreshold ==
    FuzzyCall =>
        \A i \in DOMAIN call.ret :
            \E j \in DOMAIN call.index :
                /\ call.index[j].val = call.ret[i]
                /\ CloseEnough(FoodName(call.query), call.index[j].key, call.threshold)

C21_Witness ==
    /\ FuzzyCall
    /\ call.ret # <<>>
    /\ ~HasKey(call.index, FoodName(call.query))
    /\ \E j \in DOMAIN call.index :
          ~CloseEnough(FoodName(call.query), call.index[j].key, call.threshold)

\* key k1 is strictly more similar to the query than key k2 (ratios compared
\* by cross-multiplication)
MoreSimilar(query_lower, k1, k2) ==
    Matched(query_lower, k1) * (Len(query_lower) + Len(k2))
        > Matched(query_lower, k2) * (Len(query_lower) + Len(k1))

\* the entries of the searched index at or above the threshold, in insertion order
AtOrAbove(c) ==
    SelectSeq(c.index, LAMBDA e : CloseEnough(FoodName(c.query), e.key, c.threshold))

\* an entry put into a list sorted by descending similarity, after its equals
InsertBySimilarity(sorted, e, query_lower) ==
    LET before == SelectSeq(sorted, LAMBDA x : ~MoreSimilar(query_lower, e.key, x.key))
        after == SelectSeq(sorted, LAMBDA x : MoreSimilar(query_lower, e.key, x.key))
    IN before \o <<e>> \o after

RECURSIVE SortBySimilarity(_, _)
\* the entries in descending similarity, ties in insertion order
SortBySimilarity(entries, query_lower) ==
    IF entries = <<>> THEN <<>>
    ELSE InsertBySimilarity(
             SortBySimilarity(SubSeq(entries, 1, Len(entries) - 1), query_lower),
             entries[Len(entries)], query_lower)

\* C22: without an exact match search_food_fuzzy returns at most 10 records, in
\* descending similarity to the query with ties in index insertion order, so
\* that its first element is stored under a key of maximal similarity.
C22_FuzzyResultsByDescendingSimilarity ==
    (/\ call # None /\ call.op = "search_food_fuzzy"
     /\ ~HasKey(call.index, FoodName(call.query))) =>
        /\ Len(call.ret) <= 10
        /\ call.ret = Values(Take(SortBySimilarity(AtOrAbove(call), FoodName(call.query)), 10))

\* no element occurs twice in the list
NoRepeats(list) == \A i, j \in DOMAIN list : list[i] = list[j] => i = j

\* C23: building the indexes again on a constructed loader leaves food_index,
\* keyword_index and dos_donts_index as the first build left them, and no
\* record is listed twice under a keyword.
C23_IndexBuildIdempotent ==
    (call # None /\ call.op = "_build_fast_indexes") =>
        /\ loader_food_index = call.food_before
        /\ loader_dos_donts_index = call.dos_donts_before
        /\ loader_keyword_index = call.keyword_before
        /\ \A word \in DOMAIN loader_keyword_index :
              NoRepeats(loader_keyword_index[word])

----------------------------------------------------------------------------
(* _load_all_datasets *)

\* dataset_configs, two of its folders with two files each, in dict order
dataset_configs ==
    << [folder |-> "data_1",
        files |-> << [name |-> "northveg_cleaned.csv",
                      config |-> [region |-> "North", diet |-> "veg",
                                  category |-> "regional", type |-> "none"]],
                     [name |-> "southnonveg_cleaned.csv",
                      config |-> [region |-> "South", diet |-> "nonveg",
                                  category |-> "regional", type |-> "none"]] >>],
       [folder |-> "remainingdatasets",
        files |-> << [name |-> "foods_to_avoid_during_pregnancy_dataset.csv",
                      config |-> [region |-> "All", diet |-> "all",
                                  category |-> "guidance", type |-> "avoid_foods"]],
                     [name |-> "pregnancy_diet_clean_dataset.csv",
                      config |-> [region |-> "All", diet |-> "all",
                                  category |-> "general_pregnancy",
                                  type |-> "none"]] >>] >>

Folders == {dataset_configs[i].folder : i \in DOMAIN dataset_configs}
FilesOf(fc) == {fc.files[i].name : i \in DOMAIN fc.files}
FileNames == UNION {FilesOf(dataset_configs[i]) : i \in DOMAIN dataset_configs}

\* most rows a file holds
MaxFileRows == 2

\* what the disk holds for a configured file: nothing, bytes no encoding
\* reads, a table without rows, or a table of 1..MaxFileRows rows
FileStates ==
    {[state |-> x, rows |-> 0] : x \in {"missing", "undecodable", "no_rows"}}
        \cup {[state |-> "table", rows |-> n] : n \in 1..MaxFileRows}

\* the disks: which folders exist, and the state of each file; the files of a
\* folder that does not exist are missing
Disks ==
    {d \in [exists : [Folders -> BOOLEAN], file : [FileNames -> FileStates]] :
        \A i \in DOMAIN dataset_configs :
            ~d.exists[dataset_configs[i].folder] =>
                \A f \in FilesOf(dataset_configs[i]) : d.file[f].state = "missing"}

\* _load_csv_file: the number of rows of the DataFrame, 0 for None
LoadCsvFile(disk, name) ==
    IF disk.file[name].state \in {"undecodable", "no_rows"} THEN 0
    ELSE disk.file[name].rows

\* df.to_dict('records') after the source_ columns are added
FileRecords(file, n) == [i \in 1..n |-> [file |-> file.name, row |-> i, source |-> file.config]]

\* stats[folder][field] += n
Tally(stats, folder, field, n) ==
    [stats EXCEPT !.by_folder[folder][field] = @ + n]

\* the body of the loop over the files of a folder, for one file
LoadFile(st, disk, folder, file) ==
    IF disk.file[file.name].state = "missing"
    THEN [st EXCEPT !.stats = Tally(st.stats, folder, "failed", 1)]
    ELSE IF LoadCsvFile(disk, file.name) = 0
    THEN [st EXCEPT !.stats = Tally(st.stats, folder, "failed", 1)]
    ELSE [meals |-> IF file.config.type \in {"dos_donts", "avoid_foods"} THEN st.meals
                    ELSE st.meals \o FileRecords(file, LoadCsvFile(disk, file.name)),
          guidance |-> IF file.config.type \in {"dos_donts", "avoid_foods"}
                       THEN st.guidance \o FileRecords(file, LoadCsvFile(disk, file.name))
                       ELSE st.guidance,
          stats |-> [Tally(st.stats, folder, "loaded", LoadCsvFile(disk, file.name))
                        EXCEPT !.loaded = @ + LoadCsvFile(disk, file.name)]]

RECURSIVE LoadFiles(_, _, _, _)
\* the loop over the files of a folder
LoadFiles(st, disk, folder, files) ==
    IF files = <<>> THEN st
    ELSE LoadFiles(LoadFile(st, disk, folder, Head(files)), disk, folder, Tail(files))

\* self.loading_stats['by_folder'][folder_name] = {'loaded': 0, 'failed': 0}
OpenFolder(st, folder) ==
    [st EXCEPT !.stats.by_folder =
        [f \in DOMAIN @ \cup {folder} |-> IF f = folder THEN [loaded |-> 0, failed |-> 0]
                                         ELSE @[f]]]

RECURSIVE LoadFolders(_, _, _)
\* the loop of _load_all_datasets over the folders `configs`
LoadFolders(st, disk, configs) ==
    IF configs = <<>> THEN st
    ELSE IF ~disk.exists[Head(configs).folder]
         THEN LoadFolders(OpenFolder(st, Head(configs).folder), disk, Tail(configs))
         ELSE LoadFolders(LoadFiles(OpenFolder(st, Head(configs).folder), disk,
                                    Head(configs).folder, Head(configs).files),
                          disk, Tail(configs))

\* the loader when __init__ has set up its storage and not yet loaded
InitLoad ==
    /\ meals = <<>>
    /\ guidance = <<>>
    /\ loading_stats = [loaded |-> 0, failed |-> 0, by_folder |-> <<>>]
    /\ loader_food_index = <<>>
    /\ loader_keyword_index = <<>> /\ loader_dos_donts_index = <<>>
    /\ threads = <<>>
    /\ call = None
    /\ pref_cache = <<>>
    /\ clock = 0 /\ recent_calls = <<>> /\ rl_log = <<>>
    /\ ecache = <<>> /\ sstore = <<>> /\ cret = None
    /\ response_cache = <<>> /\ solar_available = TRUE /\ req = None

\* _load_all_datasets, on one disk
LoadAllDatasets ==
    /\ call = None
    /\ \E disk \in Disks :
        \E st \in {LoadFolders([meals |-> meals, guidance |-> guidance,
                                stats |-> loading_stats], disk, dataset_configs)} :
            /\ meals' = st.meals
            /\ guidance' = st.guidance
            /\ loading_stats' = st.stats
            /\ call' = [op |-> "_load_all_datasets", disk |-> disk]
    /\ UNCHANGED <<loader_food_index, loader_keyword_index, loader_dos_donts_index,
                   threads, pref_cache, clock, chatVars, rlVars, cacheVars>>

NextLoad == LoadAllDatasets
SpecLoad == InitLoad /\ [][NextLoad]_vars

\* the configured file never yields a row: it is missing, unreadable or empty
Unusable(disk, name) == disk.file[name].state # "table"

\* the rows of a corpus that come from the file
RowsFrom(corpus, name) == {i \in DOMAIN corpus : corpus[i].file = name}

\* the configured files, each with its folder
ConfiguredFiles ==
    {[folder |-> dataset_configs[i].folder, file |-> dataset_configs[i].files[j]] :
        <<i, j>> \in {p \in (DOMAIN dataset_configs) \X (1..2) :
                         p[2] \in DOMAIN dataset_configs[p[1]].files}}

RECURSIVE SumOver(_, _)
SumOver(S, f) ==
    IF S = {} THEN 0
    ELSE LET x == CHOOSE x \in S : TRUE IN f[x] + SumOver(S \ {x}, f)

\* C24, first part: each folder's failed tally counts its unusable files
C24_FailedTallyCountsUnusableFiles ==
    (call # None /\ call.op = "_load_all_datasets") =>
        \A folder \in Folders :
            loading_stats.by_folder[folder].failed =
                Cardinality({c \in ConfiguredFiles :
                                c.folder = folder /\ Unusable(call.disk, c.file.name)})

\* C24, second part: an unusable file contributes no row, a parsed file puts
\* each of its rows into exactly one corpus, the one its declared type names
C24_RowsLandInOneCorpus ==
    (call # None /\ call.op = "_load_all_datasets") =>
        \A c \in ConfiguredFiles :
            IF Unusable(call.disk, c.file.name)
            THEN RowsFrom(meals, c.file.name) = {} /\ RowsFrom(guidance, c.file.name) = {}
            ELSE IF c.file.config.type \in {"dos_donts", "avoid_foods"}
            THEN /\ Cardinality(RowsFrom(guidance, c.file.name)) = call.disk.file[c.file.name].rows
                 /\ RowsFrom(meals, c.file.name) = {}
            ELSE /\ Cardinality(RowsFrom(meals, c.file.name)) = call.disk.file[c.file.name].rows
                 /\ RowsFrom(guidance, c.file.name) = {}

\* C24, third part: the overall loaded count is the sum of the folders'
C24_LoadedIsSumOfFolders ==
    (call # None /\ call.op = "_load_all_datasets") =>
        loading_stats.loaded =
            SumOver(Folders, [f \in Folders |-> loading_stats.by_folder[f].loaded])

\* C24: loading skips every missing, unreadable or empty file with exactly one
\* failure tallied to its folder and goes on; every parsed row lands in exactly
\* one corpus according to the file's type; the overall loaded count is the sum
\* of the per-folder loaded counts.
C24_LoadTalliesAndCorpora ==
    /\ C24_FailedTallyCountsUnusableFiles
    /\ C24_RowsLandInOneCorpus
    /\ C24_LoadedIsSumOfFolders

----------------------------------------------------------------------------
(* classify_intent as a function of the question *)

\* pieces of question text: one keyword of each bucket, a food name, and
\* "should i", which makes a safety keyword of a following "avoid"
QuestionPieces ==
    { <<"lunch">>, <<"can", "i", "eat">>, <<"should", "i">>, <<"avoid">>,
      <<"benefits">>, <<"trimester">>, <<"summer">>, <<"regional">>, <<"kiwi">> }

\* most pieces in a question
MaxPieces == 3

RECURSIVE Joined(_)
Joined(ps) == IF ps = <<>> THEN <<>> ELSE Head(ps) \o Joined(Tail(ps))

IntentQuestions == {Joined(ps) : ps \in SeqsUpTo(QuestionPieces, MaxPieces)}

InitIntent ==
    /\ call = None
    /\ meals = <<>> /\ pref_cache = <<>>
    /\ loader_food_index = <<>>
    /\ loader_keyword_index = <<>> /\ loader_dos_donts_index = <<>>
    /\ guidance = <<>> /\ loading_stats = None /\ threads = <<>>
    /\ clock = 0 /\ recent_calls = <<>> /\ rl_log = <<>>
    /\ ecache = <<>> /\ sstore = <<>> /\ cret = None
    /\ response_cache = <<>> /\ solar_available = TRUE /\ req = None

\* chatbot.classify_intent(question)
ClassifyIntent ==
    /\ call = None
    /\ \E q \in IntentQuestions :
        call' = [op |-> "classify_intent", question |-> q, ret |-> classify_intent(q)]
    /\ UNCHANGED <<meals, pref_cache, loader_food_index, restVars, clock, chatVars,
                   rlVars, cacheVars>>

NextIntent == ClassifyIntent
SpecIntent == InitIntent /\ [][NextIntent]_vars

\* the buckets in their priority order, each with its keywords; the last
\* one has no keywords and takes every question
Buckets ==
    << [intent |-> "meal_plan", words |-> MealPlanWords],
       [intent |-> "safety_check", words |-> SafetyWords],
       [intent |-> "foods_to_avoid", words |-> AvoidWords],
       [intent |-> "benefits", words |-> BenefitsWords],
       [intent |-> "trimester_specific", words |-> TrimesterWords],
       [intent |-> "seasonal", words |-> SeasonalWords],
       [intent |-> "regional", words |-> RegionalWords],
       [intent |-> "general", words |-> {<<>>}] >>

BucketMatches(q, i) == ContainsAny(q, Buckets[i].words)

\* C25: classify_intent answers every question with one of the eight intents,
\* the first one in priority order whose bucket matches; a question with both
\* a meal-plan keyword and a safety keyword is a meal_plan question.
C25_FirstMatchingBucketWins ==
    (call # None /\ call.op = "classify_intent") =>
        /\ \E i \in DOMAIN Buckets :
            /\ call.ret = Buckets[i].intent
            /\ BucketMatches(call.question, i)
            /\ \A j \in 1..(i - 1) : ~BucketMatches(call.question, j)
        /\ (BucketMatches(call.question, 1) /\ BucketMatches(call.question, 2))
                => call.ret = "meal_plan"

\* a question with a meal-plan keyword after a safety keyword was classified
C25_Witness ==
    /\ call # None /\ call.op = "classify_intent"
    /\ call.question = <<"can", "i", "eat", "lunch">>
    /\ call.ret = "meal_plan"

----------------------------------------------------------------------------
(* Polarity of the guidance records in a structured answer *)

\* the entry was made from a guidance record of polarity DONT: a row of the
\* knowledge base's donts list, or the record the loader's dos_donts_index
\* holds for an item whose row of the dos/donts dataset has a DONT type
FromDontRecord(part) ==
    \/ part.kind = "kb_dont"
    \/ part.kind = "dos_donts" /\ part.of \in kb_donts

\* the entries of a list of the answer that are about the item
EntriesFor(list, item) == {i \in DOMAIN list : list[i].of = item}

\* C26: a safety question that names an item with both a DO and a DONT
\* guidance record gets a dos entry and a donts entry for the item; no
\* structured answer lists a DONT guidance record among its dos.
C26_DontRecordsOnlyInDonts ==
    (req # None /\ ~req.raised) =>
        /\ \A i \in DOMAIN req.result.dos : ~FromDontRecord(req.result.dos[i])
        /\ classify_intent(req.q) = "safety_check" =>
            \A item \in Range(req.kws) \cap kb_dos \cap kb_donts :
                /\ EntriesFor(req.result.dos, item) # {}
                /\ EntriesFor(req.result.donts, item) # {}

----------------------------------------------------------------------------
(* Polarity of the rows of the dos/donts dataset *)

\* str.upper() on the letters of the type strings
UpperChar(c) ==
    CASE c = "d" -> "D" [] c = "o" -> "O" [] c = "n" -> "N" [] c = "t" -> "T"
      [] c = "s" -> "S"
      [] OTHER -> c
Upper(s) == [i \in DOMAIN s |-> UpperChar(s[i])]

\* the Type cells written for a DO row and for a DONT row
DoTypes == { <<"d", "o">>, <<"D", "O">>, <<"D", "o", "s">> }
DontTypes ==
    { <<"D", "o", "n", "'", "t">>, <<"D", "O", "N", "T">>,
      <<"D", "O", "N", "'", "T", "S">>, <<"d", "o", "n", "t", "s">> }

\* the Description cells
Descriptions ==
    { <<"e", "a", "t", " ", "r", "i", "p", "e">>,
      <<"a", "v", "o", "i", "d", " ", "r", "a", "w">> }

\* the Item cell of the n-th row of the dataset
ItemOfRow(n) == IF n = 1 THEN "papaya" ELSE IF n = 2 THEN "fish" ELSE "egg"

\* most rows in the dataset
MaxTypeRows == 2

\* the datasets: up to MaxTypeRows rows, each with its own item
TypeDatasets ==
    {[i \in DOMAIN cells |-> [item |-> ItemOfRow(i), type |-> cells[i][1],
                              description |-> cells[i][2]]] :
        cells \in SeqsUpTo((DoTypes \cup DontTypes) \X Descriptions, MaxTypeRows)}

\* _build_comprehensive_knowledge_base: the list a row is appended to
ComprehensiveList(type) ==
    IF /\ Contains(Upper(Strip(type)), <<"D", "O">>)
       /\ ~Contains(Upper(Strip(type)), <<"D", "O", "N", "'", "T">>)
    THEN "dos"
    ELSE IF \/ Contains(Upper(Strip(type)), <<"D", "O", "N", "'", "T">>)
            \/ Contains(Upper(Strip(type)), <<"D", "O", "N", "T">>)
    THEN "donts"
    ELSE "none"

\* EnhancedDosDontsChatbot._build_knowledge_base: the dict a row is stored in
EnhancedDict(type) ==
    IF Upper(Strip(type)) \in {<<"D", "O">>, <<"D", "O", "S">>} THEN "dos"
    ELSE IF Upper(Strip(type)) \in
                {<<"D", "O", "N", "'", "T">>, <<"D", "O", "N", "T">>,
                 <<"D", "O", "N", "'", "T", "S">>, <<"D", "O", "N", "T", "S">>}
    THEN "donts"
    ELSE "none"

\* SingleChatbot._format_dos_donts: the list the entry's text is appended to
FormatDosDontsList(entry) ==
    IF entry.type \in {<<"D", "O">>, <<"D", "O", "S">>} THEN "dos"
    ELSE IF entry.type \in
                {<<"D", "O", "N", "'", "T">>, <<"D", "O", "N", "T">>,
                 <<"D", "O", "N", "T", "S">>, <<"D", "O", "N", "T", "'", "S">>}
    THEN "donts"
    ELSE IF \/ Contains(Lower(entry.description), <<"a", "v", "o", "i", "d">>)
            \/ Contains(Lower(entry.description), <<"n", "o", "t">>)
    THEN "donts"
    ELSE "dos"

InitPolarity == InitIntent

\* ComprehensiveChatbot._build_comprehensive_knowledge_base, its dos/donts part
BuildComprehensiveKnowledgeBase ==
    /\ call = None
    /\ \E rows \in TypeDatasets :
        call' = [op |-> "_build_comprehensive_knowledge_base", rows |-> rows,
                 dos |-> SelectSeq(rows, LAMBDA r : ComprehensiveList(r.type) = "dos"),
                 donts |-> SelectSeq(rows, LAMBDA r : ComprehensiveList(r.type) = "donts")]
    /\ UNCHANGED <<meals, pref_cache, loader_food_index, restVars, clock, chatVars,
                   rlVars, cacheVars>>

\* EnhancedDosDontsChatbot._build_knowledge_base
BuildKnowledgeBase ==
    /\ call = None
    /\ \E rows \in TypeDatasets :
        call' = [op |-> "_build_knowledge_base", rows |-> rows,
                 dos |-> SelectSeq(rows, LAMBDA r : EnhancedDict(r.type) = "dos"),
                 donts |-> SelectSeq(rows, LAMBDA r : EnhancedDict(r.type) = "donts")]
    /\ UNCHANGED <<meals, pref_cache, loader_food_index, restVars, clock, chatVars,
                   rlVars, cacheVars>>

\* SingleChatbot._format_dos_donts(entry)
FormatDosDonts ==
    /\ call = None
    /\ \E rows \in {d \in TypeDatasets : Len(d) = 1} :
        call' = [op |-> "_format_dos_donts", rows |-> rows,
                 dos |-> SelectSeq(rows, LAMBDA r : FormatDosDontsList(r) = "dos"),
                 donts |-> SelectSeq(rows, LAMBDA r : FormatDosDontsList(r) = "donts")]
    /\ UNCHANGED <<meals, pref_cache, loader_food_index, restVars, clock, chatVars,
                   rlVars, cacheVars>>

NextPolarity == BuildComprehensiveKnowledgeBase \/ BuildKnowledgeBase \/ FormatDosDonts
SpecPolarity == InitPolarity /\ [][NextPolarity]_vars

PolarityCall ==
    /\ call # None
    /\ call.op \in {"_build_comprehensive_knowledge_base", "_build_knowledge_base",
                    "_format_dos_donts"}

Stored(list, row) == \E i \in DOMAIN list : list[i] = row

\* every row of the call is in the collection of its polarity and in no other
PolarityKept ==
    \A i \in DOMAIN call.rows :
        /\ call.rows[i].type \in DoTypes =>
            Stored(call.dos, call.rows[i]) /\ ~Stored(call.donts, call.rows[i])
        /\ call.rows[i].type \in DontTypes =>
            Stored(call.donts, call.rows[i]) /\ ~Stored(call.dos, call.rows[i])

\* C27: each spelling of the type is one polarity: do, DO, Dos rows are stored
\* as DO and Don't, DONT, DON'TS, donts rows as DONT, none of the latter among
\* the dos and no row in both collections.
C27_PolarityNormalized ==
    PolarityCall => PolarityKept

\* the part of C27 that EnhancedDosDontsChatbot._build_knowledge_base keeps
C27_EnhancedPolarityNormalized ==
    (PolarityCall /\ call.op = "_build_knowledge_base") => PolarityKept

----------------------------------------------------------------------------
(* Validation of the question's length *)

\* the shortest and the longest question the routes accept
min_question_chars == 3
max_question_chars == 500

\* the questions posted to the routes, as the words of their trimmed text
RouteQuestions ==
    { <<>>, <<"is">>, <<"kiwi">>, <<"can", "i", "eat", "papaya">>,
      [i \in 1..72 |-> "walking"] }

\* the posted JSON's 'question': missing, or a text with `pad` blanks on
\* either side of its words
RouteTexts == {None} \cup {[pad |-> p, words |-> q] : p \in {0, 1}, q \in RouteQuestions}

RECURSIVE TextLen(_)
\* len() of the text whose words are q
TextLen(q) ==
    IF q = <<>> THEN 0
    ELSE IF Len(q) = 1 THEN WordLen(q[1])
    ELSE WordLen(Head(q)) + 1 + TextLen(Tail(q))

\* data['question'].strip()
StripText(text) == [pad |-> 0, words |-> text.words]
\* len(question)
QuestionLen(text) == TextLen(text.words) + 2 * text.pad

\* the checks of the routes before the chatbot is obtained: the error of
\* the 400 response, or None
RouteValidation(text) ==
    IF text = None THEN Str("Question is required")
    ELSE IF QuestionLen(StripText(text)) < min_question_chars THEN Str("Question too short")
    ELSE IF QuestionLen(StripText(text)) > max_question_chars THEN Str("Question too long")
    ELSE None

\* the texts posted to the single-file app
SingleTexts ==
    { <<"H", "i">>, <<" ", "H", "i", " ">>, <<"K", "i", "w", "i">>, <<" ">> }

InitValidate ==
    /\ InitChat
    /\ solar_available = TRUE

\* routes/chatbot.py ask_question
AskQuestion ==
    /\ \E text \in RouteTexts :
        IF RouteValidation(text) # None
        THEN /\ req' = [route |-> "chatbot.ask_question", text |-> text, status |-> 400,
                        error |-> RouteValidation(text), obtained |-> FALSE]
             /\ UNCHANGED <<recent_calls, response_cache>>
        ELSE \E kws \in extract_keywords(text.words) :
             \E r \in {AnswerQuestionStructured(text.words, kws, NoTrimester, response_cache,
                           [calls |-> recent_calls, ev |-> <<>>, raised |-> FALSE],
                           [now |-> clock, cfg |-> solar_available, outs |-> <<>>])} :
                /\ recent_calls' = r.ctx.calls
                /\ response_cache' = IF r.ctx.raised THEN response_cache ELSE r.cache
                /\ req' = [route |-> "chatbot.ask_question", text |-> text,
                           status |-> IF r.ctx.raised THEN 500 ELSE 200,
                           error |-> None, obtained |-> TRUE]
    /\ UNCHANGED <<clock, rl_log, cacheVars, solar_available, loaderVars>>

\* routes/chatbot_dos_donts.py ask_question
DosDontsAskQuestion ==
    /\ \E text \in RouteTexts \ {None} :
        IF RouteValidation(text) # None
        THEN /\ req' = [route |-> "chatbot_dos_donts.ask_question", text |-> text,
                        status |-> 400, error |-> RouteValidation(text),
                        obtained |-> FALSE]
             /\ UNCHANGED <<recent_calls, response_cache>>
        ELSE \E kws \in extract_keywords(text.words) :
             \E r \in {AnswerQuestionStructured(text.words, kws, NoTrimester, response_cache,
                           [calls |-> recent_calls, ev |-> <<>>, raised |-> FALSE],
                           [now |-> clock, cfg |-> solar_available, outs |-> <<>>])} :
                /\ recent_calls' = r.ctx.calls
                /\ response_cache' = IF r.ctx.raised THEN response_cache ELSE r.cache
                /\ req' = [route |-> "chatbot_dos_donts.ask_question", text |-> text,
                           status |-> IF r.ctx.raised THEN 500 ELSE 200,
                           error |-> None, obtained |-> TRUE]
    /\ UNCHANGED <<clock, rl_log, cacheVars, solar_available, loaderVars>>

\* single_chatbot_app.py: the /chatbot/ask route and SingleChatbot.answer
SingleAsk ==
    /\ \E question \in SingleTexts :
        \E g \in {SingleGet(sstore, SingleKey(Strip(question), <<>>), clock)} :
            /\ cret' = [cls |-> "answer", question |-> question,
                        key |-> SingleKey(Strip(question), <<>>),
                        hit |-> Strip(question) # <<>> /\ g.val # None,
                        val |-> IF Strip(question) = <<>>
                                THEN [error |-> "Question is required"]
                                ELSE IF g.val # None THEN g.val
                                ELSE [question |-> Strip(question), source |-> "dataset"]]
            /\ sstore' = IF Strip(question) = <<>> THEN sstore
                         ELSE IF g.val # None THEN g.store
                         ELSE SingleSet(g.store, SingleKey(Strip(question), <<>>),
                                        [question |-> Strip(question), source |-> "dataset"],
                                        clock)
    /\ UNCHANGED <<clock, rlVars, ecache, chatVars, loaderVars>>

NextValidate == AskQuestion \/ DosDontsAskQuestion \/ SingleAsk
SpecValidate == InitValidate /\ [][NextValidate]_vars

\* the trimmed question is too short or too long
OutOfRange(question) ==
    \/ Len(Strip(question)) < min_question_chars
    \/ Len(Strip(question)) > max_question_chars

\* the text posted to a route is too short or too long once trimmed
OutOfRangeText(text) ==
    IF text = None THEN FALSE
    ELSE \/ QuestionLen(StripText(text)) < min_question_chars
         \/ QuestionLen(StripText(text)) > max_question_chars

\* C28 for the two routes of the main application
C28_RoutesRejectOutOfRange ==
    [][(req' # None /\ OutOfRangeText(req'.text)) =>
            /\ req'.status = 400 /\ ~req'.obtained
            /\ response_cache' = response_cache
            /\ recent_calls' = recent_calls]_vars

\* C28: a question whose trimmed length is below 3 or above 500 is answered
\* with a validation error before the chatbot is obtained, and the step that
\* answers it leaves the response caches and the rate-limit queue as they were.
C28_OutOfRangeQuestionRejected ==
    [][/\ (req' # None /\ OutOfRangeText(req'.text)) =>
            /\ req'.status = 400 /\ ~req'.obtained
            /\ response_cache' = response_cache
            /\ recent_calls' = recent_calls
       /\ (cret' # None /\ cret'.cls = "answer" /\ OutOfRange(cret'.question)) =>
            /\ "error" \in DOMAIN cret'.val
            /\ sstore' = sstore]_vars

----------------------------------------------------------------------------
(* The preference cache and the argument tuple *)

\* C29: a _search_with_filters call served from the preference cache returns
\* what the filter computes for its own argument tuple over the same records:
\* an entry is never returned to a call with another tuple.
C29_CachedResultIsOwnTuples ==
    (call # None /\ call.op = "get_meals_by_preference") =>
        \A i \in DOMAIN call.searches :
            call.searches[i].hit =>
                call.searches[i].results = Filtered(meals, call.searches[i].args)

----------------------------------------------------------------------------
(* SpecThreads: _rate_limit_allows called from several request threads of   *)
(* one process on the chatbot get_comprehensive_chatbot() shares.  The      *)
(* method takes no lock; a thread can be preempted between any two of its   *)
(* statements.                                                              *)

\* number of request threads
NumThreads == 2
Threads == 1..NumThreads

\* the threads inside _rate_limit_allows
Running == {t \in Threads : threads[t].pc # "idle"}

InitThreads ==
    /\ clock = 0
    /\ recent_calls = <<>>
    /\ rl_log = <<>>
    /\ threads = [t \in Threads |-> [pc |-> "idle", now |-> 0]]
    /\ ecache = <<>> /\ sstore = <<>> /\ cret = None
    /\ response_cache = <<>> /\ solar_available = FALSE /\ req = None
    /\ meals = <<>> /\ pref_cache = <<>> /\ call = None
    /\ loader_food_index = <<>>
    /\ loader_keyword_index = <<>> /\ loader_dos_donts_index = <<>>
    /\ guidance = <<>> /\ loading_stats = None

\* time passes
TickThreads ==
    /\ clock + Step <= MaxTime
    /\ clock' = clock + Step
    /\ UNCHANGED <<rlVars, cacheVars, chatVars, meals, pref_cache, call,
                   loader_food_index, loader_keyword_index, loader_dos_donts_index,
                   guidance, loading_stats, threads>>

\* now = time.time()
ReadClock(t) ==
    /\ threads[t].pc = "idle"
    /\ Len(rl_log) + Cardinality(Running) < MaxCalls
    /\ threads' = [threads EXCEPT ![t] = [pc |-> "prune", now |-> clock]]
    /\ UNCHANGED <<clock, rlVars, cacheVars, chatVars, meals, pref_cache, call,
                   loader_food_index, loader_keyword_index, loader_dos_donts_index,
                   guidance, loading_stats>>

\* while self._recent_calls and now - self._recent_calls[0] > window
PruneTest(t) ==
    /\ threads[t].pc = "prune"
    /\ threads' = [threads EXCEPT ![t].pc =
                      IF recent_calls # <<>> /\ threads[t].now - Head(recent_calls) > window
                      THEN "popleft" ELSE "count"]
    /\ UNCHANGED <<clock, rlVars, cacheVars, chatVars, meals, pref_cache, call,
                   loader_food_index, loader_keyword_index, loader_dos_donts_index,
                   guidance, loading_stats>>

\* self._recent_calls.popleft(); on an empty deque it raises IndexError
PopLeft(t) ==
    /\ threads[t].pc = "popleft"
    /\ IF recent_calls = <<>>
       THEN /\ recent_calls' = recent_calls
            /\ rl_log' = Append(rl_log, [t |-> threads[t].now, ok |-> FALSE,
                                         raised |-> TRUE])
            /\ threads' = [threads EXCEPT ![t].pc = "idle"]
       ELSE /\ recent_calls' = Tail(recent_calls)
            /\ rl_log' = rl_log
            /\ threads' = [threads EXCEPT ![t].pc = "prune"]
    /\ UNCHANGED <<clock, cacheVars, chatVars, meals, pref_cache, call,
                   loader_food_index, loader_keyword_index, loader_dos_donts_index,
                   guidance, loading_stats>>

\* if len(self._recent_calls) >= self.rate_limit_per_min: return False
CountTest(t) ==
    /\ threads[t].pc = "count"
    /\ IF Len(recent_calls) >= rate_limit_per_min
       THEN /\ rl_log' = Append(rl_log, [t |-> threads[t].now, ok |-> FALSE,
                                         raised |-> FALSE])
            /\ threads' = [threads EXCEPT ![t].pc = "idle"]
       ELSE /\ rl_log' = rl_log
            /\ threads' = [threads EXCEPT ![t].pc = "append"]
    /\ UNCHANGED <<clock, recent_calls, cacheVars, chatVars, meals, pref_cache, call,
                   loader_food_index, loader_keyword_index, loader_dos_donts_index,
                   guidance, loading_stats>>

\* self._recent_calls.append(now); return True
AppendNow(t) ==
    /\ threads[t].pc = "append"
    /\ recent_calls' = Append(recent_calls, threads[t].now)
    /\ rl_log' = Append(rl_log, [t |-> threads[t].now, ok |-> TRUE, raised |-> FALSE])
    /\ threads' = [threads EXCEPT ![t].pc = "idle"]
    /\ UNCHANGED <<clock, cacheVars, chatVars, meals, pref_cache, call,
                   loader_food_index, loader_keyword_index, loader_dos_donts_index,
                   guidance, loading_stats>>

NextThreads ==
    \/ TickThreads
    \/ \E t \in Threads : ReadClock(t)
    \/ \E t \in Threads : PruneTest(t)
    \/ \E t \in Threads : PopLeft(t)
    \/ \E t \in Threads : CountTest(t)
    \/ \E t \in Threads : AppendNow(t)

SpecThreads == InitThreads /\ [][NextThreads]_vars

\* C30: with several threads inside _rate_limit_allows, in every interleaving
\* of their steps the calls that returned true with a timestamp in the 60
\* seconds that end at any time never number more than rate_limit_per_min.
C30_QuotaPerWindowUnderThreads ==
    \A t \in 0..clock :
        Cardinality({i \in DOMAIN rl_log :
                        rl_log[i].ok /\ t - window <= rl_log[i].t /\ rl_log[i].t <= t})
            <= rate_limit_per_min

====
